---------------------------- MODULE Spec2Model ----------------------------
(***************************************************************************)
(* Model of the vCard text codec of pipobscure/vcard (src/src/escape.ts,   *)
(* src/src/generator.ts, src/src/property.ts).                              *)
(*                                                                         *)
(* A JavaScript string is modelled as the sequence of its UTF-16 code      *)
(* units (natural numbers); a string[] as a sequence of such sequences.    *)
(* Every exported function of the codec is an operator computed the way    *)
(* the source computes it; each specification below draws the inputs of a  *)
(* group of functions from a bounded set and applies the functions in its  *)
(* actions.                                                                *)
(***************************************************************************)
EXTENDS Integers, Sequences, FiniteSets, TLC

VARIABLES
  pc,    \* position of the call sequence under test
  arg,   \* the input handed to the first function
  ret,   \* what the first function returned
  ret2,  \* what the function applied to ret returned
  parts,     \* parseParameters: the pieces of the parameter segment
  idx,       \* parseParameters: index (from 1) of the piece the loop is at
  map,       \* parseParameters: the ParameterMap being filled
  warnings,  \* parseParameters: the caller's warning list;
             \* parseVCardText: the warning list of the ParseResult
  lines,         \* parseVCardText: the unfolded lines of the input
  lineIdx,       \* parseVCardText: index (from 1) of the line the loop is at
  inVCard,       \* parseVCardText: inside a BEGIN:VCARD ... END:VCARD block
  currentLines,  \* parseVCardText: the lines accumulated for the open block
  rawVCards,     \* parseVCardText: the blocks emitted so far
  frames         \* the local variables of each call in progress (concurrent
                 \* calls; the segment loop of foldLine)

locals == <<parts, idx, map, warnings>>

assembler == <<lines, lineIdx, inVCard, currentLines, rawVCards, frames>>

vars == <<pc, arg, ret, ret2, parts, idx, map, warnings,
          lines, lineIdx, inVCard, currentLines, rawVCards, frames>>

NONE == <<>>   \* value of ret / ret2 before the call that sets it

\* No parseParameters call is in progress
NoLocals ==
  /\ parts = <<>>
  /\ idx = 0
  /\ map = <<>>
  /\ warnings = <<>>

\* No parseVCardText call is in progress
NoAssembler ==
  /\ lines = <<>>
  /\ lineIdx = 0
  /\ inVCard = FALSE
  /\ currentLines = <<>>
  /\ rawVCards = <<>>
  /\ frames = <<>>

---------------------------------------------------------------------------
(* Text literals.  AsciiLow lists the printable ASCII characters U+0020 ..  *)
(* U+005F and AsciiHigh U+0061 .. U+007E, both in code order, so that Ord   *)
(* gives a character's code unit.                                           *)

AsciiLow == " !\"#$%&'()*+,-./0123456789:;<=>?@ABCDEFGHIJKLMNOPQRSTUVWXYZ[\\]^_"

AsciiHigh == "abcdefghijklmnopqrstuvwxyz{|}~"

Ord(c) ==
  IF \E i \in 1..Len(AsciiLow) : SubSeq(AsciiLow, i, i) = c
  THEN 31 + (CHOOSE i \in 1..Len(AsciiLow) : SubSeq(AsciiLow, i, i) = c)
  ELSE 96 + (CHOOSE i \in 1..Len(AsciiHigh) : SubSeq(AsciiHigh, i, i) = c)

T(str) == [i \in 1..Len(str) |-> Ord(SubSeq(str, i, i))]

TAB == 9
LF == 10
CR == 13
SP == Ord(" ")
QUOTE == Ord("\"")
COMMA == Ord(",")
HYPHEN == Ord("-")
COLON == Ord(":")
SEMI == Ord(";")
EQUALS == Ord("=")
BACKSLASH == Ord("\\")
LowerA == Ord("a")
LowerZ == Ord("z")
UpperA == Ord("A")
UpperZ == Ord("Z")
Digit0 == Ord("0")
Digit9 == Ord("9")
CRLF == <<CR, LF>>

(* Generic helpers on sequences *)

Rep(c, n) == [i \in 1..n |-> c]

RECURSIVE Join(_, _)
Join(items, sep) ==
  IF items = <<>> THEN <<>>
  ELSE IF Len(items) = 1 THEN items[1]
  ELSE items[1] \o sep \o Join(Tail(items), sep)

RECURSIVE SeqsUpTo(_, _)
SeqsUpTo(S, n) ==
  IF n = 0 THEN {<<>>}
  ELSE LET shorter == SeqsUpTo(S, n - 1)
       IN  shorter \cup {Append(s, c) : s \in shorter, c \in S}

---------------------------------------------------------------------------
(* Line folding and unfolding (generator.ts)                                *)

MAX_LINE_OCTETS == 75

Max1Byte == 127
Max2Byte == 2047
MaxBMP == 65535
SurrogateBase == 55296

IsHighSurrogate(u) == u >= SurrogateBase /\ u < SurrogateBase + 1024
IsLowSurrogate(u) == u >= SurrogateBase + 1024 /\ u < SurrogateBase + 2048

charCodeAt(s, i) == s[i]

\* String.prototype.codePointAt, index i counted from 1
codePointAt(s, i) ==
  IF IsHighSurrogate(s[i]) /\ i + 1 <= Len(s) /\ IsLowSurrogate(s[i + 1])
  THEN (s[i] - SurrogateBase) * 1024 + (s[i + 1] - (SurrogateBase + 1024)) + MaxBMP + 1
  ELSE s[i]

charBytes(cp) ==
  IF cp > MaxBMP THEN 4 ELSE IF cp > Max2Byte THEN 3 ELSE IF cp > Max1Byte THEN 2 ELSE 1

\* Octets that the code unit at index i adds to the UTF-8 encoding of s: a
\* surrogate pair encodes to 4 octets (counted at its high half), a lone
\* surrogate to the 3 octets of U+FFFD.
unitBytes(s, i) ==
  IF IsLowSurrogate(s[i]) /\ i > 1 /\ IsHighSurrogate(s[i - 1]) THEN 0
  ELSE charBytes(codePointAt(s, i))

RECURSIVE sumBytes(_, _, _)
sumBytes(s, lo, hi) ==
  IF lo > hi THEN 0
  ELSE IF lo = hi THEN unitBytes(s, lo)
  ELSE LET mid == (lo + hi) \div 2
       IN  sumBytes(s, lo, mid) + sumBytes(s, mid + 1, hi)

\* Buffer.byteLength(s, 'utf8')
byteLength(s) == sumBytes(s, 1, Len(s))

\* The inner while loop of foldLine: the index (from 1) of the first code unit
\* that is left out of the segment starting at `end`.
RECURSIVE scanSegment(_, _, _, _)
scanSegment(line, end, octetCount, maxBytes) ==
  IF end > Len(line) THEN end
  ELSE LET cp == codePointAt(line, end)
           cb == charBytes(cp)
       IN  IF octetCount + cb > maxBytes THEN end
           ELSE scanSegment(line, IF cp > MaxBMP THEN end + 2 ELSE end + 1,
                            octetCount + cb, maxBytes)

contBudgetNoIndent == MAX_LINE_OCTETS

\* Budget of a continuation segment (generator.ts:56)
contBudget == MAX_LINE_OCTETS - 1

\* The outer while loop of foldLine: the list `parts`
RECURSIVE foldParts(_, _, _)
foldParts(line, start, maxBytes) ==
  IF start > Len(line) THEN <<>>
  ELSE LET scanned == scanSegment(line, start, 0, maxBytes)
           end == IF scanned = start THEN start + 1 ELSE scanned
       IN  <<SubSeq(line, start, end - 1)>> \o foldParts(line, end, contBudget)

foldSeparatorBare == CRLF

\* The separator of parts.join('\r\n ') (generator.ts:59)
foldSeparator == CRLF \o <<SP>>

foldLine(line) ==
  IF byteLength(line) <= MAX_LINE_OCTETS THEN line \o CRLF
  ELSE Join(foldParts(line, 1, MAX_LINE_OCTETS), foldSeparator) \o CRLF

\* s with the code units at the indices in the set `drop` removed
deleteAt(s, drop) ==
  LET kept == SelectSeq([i \in 1..Len(s) |-> i], LAMBDA i : i \notin drop)
  IN  [k \in 1..Len(kept) |-> s[kept[k]]]

\* input.replace(/\r\n/g, '\n'): two matches of \r\n never overlap, so the
\* replacement deletes every CR that an LF follows.
replaceCRLF(s) ==
  deleteAt(s, {i \in 1..Len(s) : s[i] = CR /\ i + 1 <= Len(s) /\ s[i + 1] = LF})

\* .replace(/\r/g, '\n')
replaceCR(s) == [i \in 1..Len(s) |-> IF s[i] = CR THEN LF ELSE s[i]]

removeFoldBreaks(s) ==
  deleteAt(s, {i \in 1..Len(s) : s[i] = LF /\ i + 1 <= Len(s) /\ s[i + 1] \in {SP, TAB}})

\* .replace(/\n[ \t]/g, ''): a match starts with LF and ends with a space or
\* tab, so two matches never overlap; the replacement deletes every LF that a
\* space or tab follows, and that space or tab.
removeFolds(s) ==
  deleteAt(s, {i \in 1..Len(s) :
    \/ s[i] = LF /\ i + 1 <= Len(s) /\ s[i + 1] \in {SP, TAB}
    \/ s[i] \in {SP, TAB} /\ i > 1 /\ s[i - 1] = LF})

\* String.prototype.split(sep) for a one-character separator
splitOn(s, sep) ==
  LET at == SelectSeq([i \in 1..Len(s) |-> i], LAMBDA i : s[i] = sep)
      from(k) == IF k = 1 THEN 1 ELSE at[k - 1] + 1
      to(k) == IF k = Len(at) + 1 THEN Len(s) ELSE at[k] - 1
  IN  [k \in 1..(Len(at) + 1) |-> SubSeq(s, from(k), to(k))]

unfoldLines(input) ==
  LET unfolded == removeFolds(replaceCR(replaceCRLF(input)))
  IN  SelectSeq(splitOn(unfolded, LF), LAMBDA line : Len(line) > 0)

---------------------------------------------------------------------------
(* SpecFold: foldLine applied to a line, unfoldLines applied to the result  *)

MaxFolds == 2
PadSpan == 3
MaxMid == 2
MaxTail == 1

Fill == LowerA

\* Code units of every UTF-8 width: space and tab (1, the fold indicators),
\* U+0080 (2), U+0800 (3), a high and a low surrogate (4 as a pair, 3 alone).
FoldAlphabet ==
  {SP, TAB, Max1Byte + 1, Max2Byte + 1, SurrogateBase, SurrogateBase + 1024}

\* Lines without CR or LF: a run of ASCII letters that ends at or just after a
\* fold boundary, up to MaxMid arbitrary code units, and a short ASCII tail.
FoldInputs ==
  { Rep(Fill, k * (MAX_LINE_OCTETS - 1) + d) \o mid \o Rep(Fill, t) :
      k \in 0..MaxFolds, d \in 0..PadSpan,
      mid \in SeqsUpTo(FoldAlphabet, MaxMid), t \in 0..MaxTail }

InitFold ==
  /\ pc = "input"
  /\ arg \in FoldInputs
  /\ ret = NONE
  /\ ret2 = NONE
  /\ NoLocals
  /\ NoAssembler

FoldLine ==
  /\ pc = "input"
  /\ ret' = foldLine(arg)
  /\ pc' = "folded"
  /\ UNCHANGED <<arg, ret2, locals, assembler>>

UnfoldLines ==
  /\ pc = "folded"
  /\ ret2' = unfoldLines(ret)
  /\ pc' = "unfolded"
  /\ UNCHANGED <<arg, ret, locals, assembler>>

NextFold == FoldLine \/ UnfoldLines

SpecFold == InitFold /\ [][NextFold]_vars

\* The physical lines of a folded output: the pieces that its CRLF
\* terminators end.
PhysicalLines(out) ==
  LET pieces == splitOn(replaceCRLF(out), LF)
  IN  SubSeq(pieces, 1, Len(pieces) - 1)

\* C1 as stated: for every single-line text L, unfoldLines(foldLine(L)) is
\* exactly the one line L.
C1_Original == pc = "unfolded" => ret2 = <<arg>>

\* C1 (amended): for every non-empty single-line text L (no CR or LF in it),
\* unfoldLines(foldLine(L)) is exactly the one line L; for the empty line the
\* result is the empty list, because unfoldLines drops blank lines.
C1_FoldUnfoldRoundTrip ==
  pc = "unfolded" =>
    /\ arg # <<>> => ret2 = <<arg>>
    /\ arg = <<>> => ret2 = <<>>

\* A line of exactly 150 octets that was folded into three physical lines
\* and came back as itself.
C1_Witness ==
  /\ pc = "unfolded"
  /\ byteLength(arg) = 2 * MAX_LINE_OCTETS
  /\ Len(PhysicalLines(ret)) = 3
  /\ ret2 = <<arg>>

\* C2: every physical line of foldLine's output (a continuation line counted
\* with its leading space) is at most 75 UTF-8 octets long.
C2_PhysicalLinesWithinBudget ==
  pc = "folded" =>
    \A i \in 1..Len(PhysicalLines(ret)) :
      byteLength(PhysicalLines(ret)[i]) <= MAX_LINE_OCTETS

\* A folded output with a first line and a continuation line of exactly 75
\* octets each and a multi-byte character moved whole to the third line.
C2_Witness ==
  /\ pc = "folded"
  /\ Len(PhysicalLines(ret)) = 3
  /\ byteLength(PhysicalLines(ret)[1]) = MAX_LINE_OCTETS
  /\ byteLength(PhysicalLines(ret)[2]) = MAX_LINE_OCTETS
  /\ byteLength(PhysicalLines(ret)[3]) > Len(PhysicalLines(ret)[3])

---------------------------------------------------------------------------
(* Text escaping and splitting (escape.ts)                                  *)

LowerN == Ord("n")
UpperN == Ord("N")

\* String.prototype.replace(/c/g, repl) for a one-character pattern, on the
\* code units lo..hi of s
RECURSIVE replaceRange(_, _, _, _, _)
replaceRange(s, c, repl, lo, hi) ==
  IF lo > hi THEN <<>>
  ELSE IF lo = hi THEN (IF s[lo] = c THEN repl ELSE <<s[lo]>>)
  ELSE LET mid == (lo + hi) \div 2
       IN  replaceRange(s, c, repl, lo, mid) \o replaceRange(s, c, repl, mid + 1, hi)

replaceChar(s, c, repl) == replaceRange(s, c, repl, 1, Len(s))

\* The characters that /\\(\\|n|N|,|;)/ accepts after the backslash
EscapeChars == {BACKSLASH, LowerN, UpperN, COMMA, SEMI}

\* A match of /\\(\\|n|N|,|;)/g starts at index i: the pattern matches there
\* and i is not the second character of the match before it (the regex scans
\* left to right and resumes after each match).
RECURSIVE escapeMatchAt(_, _)
escapeMatchAt(s, i) ==
  /\ i >= 1
  /\ i + 1 <= Len(s)
  /\ s[i] = BACKSLASH
  /\ s[i + 1] \in EscapeChars
  /\ ~escapeMatchAt(s, i - 1)

\* The replacement callback of unescapeText
unescapeChar(c) == IF c = LowerN \/ c = UpperN THEN LF ELSE c

unescapeText(s) ==
  LET replaced == [i \in 1..Len(s) |->
                     IF escapeMatchAt(s, i) THEN unescapeChar(s[i + 1]) ELSE s[i]]
  IN  deleteAt(replaced, {i \in 1..Len(s) : escapeMatchAt(s, i - 1)})

escapeTextBackslashLast(s) ==
  replaceChar(replaceChar(replaceChar(replaceChar(s,
    LF, <<BACKSLASH, LowerN>>),
    COMMA, <<BACKSLASH, COMMA>>),
    SEMI, <<BACKSLASH, SEMI>>),
    BACKSLASH, <<BACKSLASH, BACKSLASH>>)

escapeText(s) ==
  replaceChar(replaceChar(replaceChar(replaceChar(s,
    BACKSLASH, <<BACKSLASH, BACKSLASH>>),
    LF, <<BACKSLASH, LowerN>>),
    COMMA, <<BACKSLASH, COMMA>>),
    SEMI, <<BACKSLASH, SEMI>>)

escapeSeparatorsOnly(s) ==
  replaceChar(replaceChar(replaceChar(s,
    LF, <<BACKSLASH, LowerN>>),
    SEMI, <<BACKSLASH, SEMI>>),
    COMMA, <<BACKSLASH, COMMA>>)

escapeStructuredComponent(s) ==
  replaceChar(replaceChar(replaceChar(replaceChar(s,
    BACKSLASH, <<BACKSLASH, BACKSLASH>>),
    LF, <<BACKSLASH, LowerN>>),
    SEMI, <<BACKSLASH, SEMI>>),
    COMMA, <<BACKSLASH, COMMA>>)

\* The for loop shared by splitStructured and splitList: i is the index (from
\* 1) of the code unit looked at, current the component being collected.
RECURSIVE splitEscaped(_, _, _, _)
splitEscaped(value, delim, i, current) ==
  IF i > Len(value) THEN <<current>>
  ELSE IF value[i] = BACKSLASH /\ i + 1 <= Len(value)
       THEN splitEscaped(value, delim, i + 2, current \o <<value[i], value[i + 1]>>)
  ELSE IF value[i] = delim
       THEN <<current>> \o splitEscaped(value, delim, i + 1, <<>>)
  ELSE splitEscaped(value, delim, i + 1, Append(current, value[i]))

splitStructuredNaive(value) == splitOn(value, SEMI)

splitStructured(value) == splitEscaped(value, SEMI, 1, <<>>)

splitList(value) == splitEscaped(value, COMMA, 1, <<>>)

parseStructured(value) ==
  [k \in 1..Len(splitStructured(value)) |-> unescapeText(splitStructured(value)[k])]

parseList(value) ==
  [k \in 1..Len(splitList(value)) |-> unescapeText(splitList(value)[k])]

parseStructuredList(value) ==
  [k \in 1..Len(splitStructured(value)) |-> parseList(splitStructured(value)[k])]

---------------------------------------------------------------------------
(* SpecText: the escaper applied to a text                                  *)

MaxText == 4

\* The four reserved characters, the letters of the newline escape, and two
\* characters without a meaning to the escaper.
TextAlphabet == {BACKSLASH, LowerN, UpperN, COMMA, SEMI, LF, COLON, Fill}

TextInputs == SeqsUpTo(TextAlphabet, MaxText)

InitText ==
  /\ pc = "input"
  /\ arg \in TextInputs
  /\ ret = NONE
  /\ ret2 = NONE
  /\ NoLocals
  /\ NoAssembler

EscapeText ==
  /\ pc = "input"
  /\ ret' = escapeText(arg)
  /\ pc' = "escaped"
  /\ UNCHANGED <<arg, ret2, locals, assembler>>

UnescapeEscaped ==
  /\ pc = "escaped"
  /\ ret2' = unescapeText(ret)
  /\ pc' = "roundtrip"
  /\ UNCHANGED <<arg, ret, locals, assembler>>

UnescapeText ==
  /\ pc = "input"
  /\ ret' = unescapeText(arg)
  /\ pc' = "unescaped"
  /\ UNCHANGED <<arg, ret2, locals, assembler>>

SplitStructured ==
  /\ pc = "input"
  /\ ret' = splitStructured(arg)
  /\ pc' = "splitStructured"
  /\ UNCHANGED <<arg, ret2, locals, assembler>>

SplitList ==
  /\ pc = "input"
  /\ ret' = splitList(arg)
  /\ pc' = "splitList"
  /\ UNCHANGED <<arg, ret2, locals, assembler>>

NextText ==
  \/ EscapeText
  \/ UnescapeEscaped
  \/ UnescapeText
  \/ SplitStructured
  \/ SplitList

SpecText == InitText /\ [][NextText]_vars

\* C3: unescapeText(escapeText(x)) = x for every text x.
C3_UnescapeEscapeRoundTrip == pc = "roundtrip" => ret2 = arg

\* A text with a backslash directly followed by the letter n, a newline and a
\* trailing backslash came back unchanged.
C3_Witness ==
  /\ pc = "roundtrip"
  /\ arg = <<BACKSLASH, LowerN, LF, BACKSLASH>>
  /\ ret2 = arg

\* What C4 says unescapeText returns: every backslash that another character
\* follows is dropped and that character kept (n and N as a newline).
RECURSIVE anyEscapeAt(_, _)
anyEscapeAt(s, i) ==
  /\ i >= 1
  /\ i + 1 <= Len(s)
  /\ s[i] = BACKSLASH
  /\ ~anyEscapeAt(s, i - 1)

BackslashDropped(s) ==
  LET replaced == [i \in 1..Len(s) |->
                     IF anyEscapeAt(s, i) THEN unescapeChar(s[i + 1]) ELSE s[i]]
  IN  deleteAt(replaced, {i \in 1..Len(s) : anyEscapeAt(s, i - 1)})

\* C4: unescapeText recognizes backslash-backslash, backslash-n, backslash-N,
\* backslash-comma and backslash-semicolon, and for a backslash followed by
\* any other character it drops the backslash and keeps that character.
C4_UnknownEscapeDropsBackslash == pc = "unescaped" => ret = BackslashDropped(arg)

\* Number of consecutive backslashes that end right before index i of s
BackslashesBefore(s, i) ==
  LET j == CHOOSE j \in 0..(i - 1) :
             /\ j = 0 \/ s[j] # BACKSLASH
             /\ \A k \in (j + 1)..(i - 1) : s[k] = BACKSLASH
  IN  i - 1 - j

\* Indices of the delimiters preceded by an even number of backslashes
UnescapedDelims(s, delim) ==
  {i \in 1..Len(s) : s[i] = delim /\ BackslashesBefore(s, i) % 2 = 0}

\* s cut at the indices of the set cuts (the cut characters left out)
CutAt(s, cuts) ==
  LET at == SelectSeq([i \in 1..Len(s) |-> i], LAMBDA i : i \in cuts)
      from(k) == IF k = 1 THEN 1 ELSE at[k - 1] + 1
      to(k) == IF k = Len(at) + 1 THEN Len(s) ELSE at[k] - 1
  IN  [k \in 1..(Len(at) + 1) |-> SubSeq(s, from(k), to(k))]

\* C5: splitStructured (and splitList with ',') cuts the value at a delimiter
\* if and only if an even number of consecutive backslashes precedes it, so
\* the number of components is the number of unescaped delimiters plus one.
C5_SplitAtUnescapedDelimiters ==
  /\ pc = "splitStructured" =>
       /\ ret = CutAt(arg, UnescapedDelims(arg, SEMI))
       /\ Len(ret) = Cardinality(UnescapedDelims(arg, SEMI)) + 1
  /\ pc = "splitList" =>
       /\ ret = CutAt(arg, UnescapedDelims(arg, COMMA))
       /\ Len(ret) = Cardinality(UnescapedDelims(arg, COMMA)) + 1

\* A value with an escaped semicolon followed by an unescaped one was cut
\* once, into two components.
C5_Witness ==
  /\ pc = "splitStructured"
  /\ arg = <<BACKSLASH, SEMI, SEMI, Fill>>
  /\ ret = << <<BACKSLASH, SEMI>>, <<Fill>> >>

---------------------------------------------------------------------------
(* Parameter parsing (generator.ts, escape.ts)                              *)

\* The white space that String.prototype.trim strips (of the characters the
\* inputs can hold)
WhiteSpace == {SP, TAB, LF, CR}

\* String.prototype.trim
trim(s) ==
  LET solid == {i \in 1..Len(s) : s[i] \notin WhiteSpace}
  IN  IF solid = {} THEN <<>>
      ELSE SubSeq(s, CHOOSE i \in solid : \A j \in solid : i <= j,
                     CHOOSE i \in solid : \A j \in solid : i >= j)

\* String.prototype.toUpperCase / toLowerCase on ASCII text
toUpperCase(s) ==
  [i \in 1..Len(s) |-> IF s[i] >= LowerA /\ s[i] <= LowerZ THEN s[i] - 32 ELSE s[i]]

toLowerCase(s) ==
  [i \in 1..Len(s) |-> IF s[i] >= UpperA /\ s[i] <= UpperZ THEN s[i] + 32 ELSE s[i]]

\* String.prototype.indexOf for one character, counted from 1; 0 when absent
indexOf(s, c) ==
  IF \E i \in 1..Len(s) : s[i] = c
  THEN CHOOSE i \in 1..Len(s) : s[i] = c /\ \A j \in 1..(i - 1) : s[j] # c
  ELSE 0

\* A match of /\\\\/g starts at index i (matches do not overlap)
RECURSIVE backslashPairAt(_, _)
backslashPairAt(s, i) ==
  /\ i >= 1
  /\ i + 1 <= Len(s)
  /\ s[i] = BACKSLASH
  /\ s[i + 1] = BACKSLASH
  /\ ~backslashPairAt(s, i - 1)

unquoteParamValue(value) ==
  IF Len(value) >= 2 /\ value[1] = QUOTE /\ value[Len(value)] = QUOTE
  THEN LET inner == SubSeq(value, 2, Len(value) - 1)
           \* .replace(/\\"/g, '"')
           quotes == deleteAt(inner, {i \in 1..Len(inner) :
                       inner[i] = BACKSLASH /\ i + 1 <= Len(inner) /\ inner[i + 1] = QUOTE})
           \* .replace(/\\\\/g, '\\')
       IN  deleteAt(quotes, {i \in 1..Len(quotes) : backslashPairAt(quotes, i - 1)})
  ELSE value

\* splitParamString: inQuotes when the loop looks at index i, which every
\* '"' before i has toggled
inQuotesAt(s, i) == Cardinality({j \in 1..(i - 1) : s[j] = QUOTE}) % 2 = 1

\* splitParamString: the pieces between the ';' met outside quotes; the last
\* piece is pushed only when it is not empty.
splitParamString(s) ==
  LET pieces == CutAt(s, {i \in 1..Len(s) : s[i] = SEMI /\ ~inQuotesAt(s, i)})
  IN  IF pieces[Len(pieces)] = <<>> THEN SubSeq(pieces, 1, Len(pieces) - 1) ELSE pieces

\* /^[A-Z0-9-]+$/.test(s)
isBareToken(s) ==
  /\ Len(s) >= 1
  /\ \A i \in 1..Len(s) :
       \/ s[i] >= UpperA /\ s[i] <= UpperZ
       \/ s[i] >= Digit0 /\ s[i] <= Digit9
       \/ s[i] = HYPHEN

\* A ParameterMap is the sequence of its entries in insertion order; an entry
\* holds a string (list = FALSE, one element in vals) or an array of strings.
mapHas(m, name) == \E e \in 1..Len(m) : m[e].name = name

mapIndex(m, name) == CHOOSE e \in 1..Len(m) : m[e].name = name

mergeParamOverwrite(m, name, value) ==
  IF ~mapHas(m, name)
  THEN Append(m, [name |-> name, list |-> FALSE, vals |-> <<value>>])
  ELSE [m EXCEPT ![mapIndex(m, name)] = [name |-> name, list |-> FALSE, vals |-> <<value>>]]

\* The three-way merge of parseParameters (lines 354-361 and 373-380)
mergeParam(m, name, value) ==
  IF ~mapHas(m, name)
  THEN Append(m, [name |-> name, list |-> FALSE, vals |-> <<value>>])
  ELSE IF m[mapIndex(m, name)].list
       THEN [m EXCEPT ![mapIndex(m, name)].vals = Append(@, value)]
       ELSE [m EXCEPT ![mapIndex(m, name)] =
               [name |-> name, list |-> TRUE, vals |-> Append(@.vals, value)]]

TYPE == T("TYPE")

\* What one piece of the segment is: nothing (blank), a malformed token, or
\* an occurrence of a name with a value.
partKind(part) ==
  IF trim(part) = <<>> THEN "blank"
  ELSE IF indexOf(part, EQUALS) = 0 /\ ~isBareToken(toUpperCase(trim(part))) THEN "malformed"
  ELSE "param"

partName(part) ==
  IF indexOf(part, EQUALS) = 0 THEN TYPE
  ELSE toUpperCase(trim(SubSeq(part, 1, indexOf(part, EQUALS) - 1)))

partValue(part) ==
  IF indexOf(part, EQUALS) = 0 THEN toLowerCase(toUpperCase(trim(part)))
  ELSE unquoteParamValue(trim(SubSeq(part, indexOf(part, EQUALS) + 1, Len(part))))

---------------------------------------------------------------------------
(* SpecParams: parseParameters run on a parameter segment, one piece of the *)
(* segment per step of its for loop                                         *)

MaxParams == 3

ParamTokens ==
  { T("TYPE=work"), T("TYPE=home"), T("type=cell"), T("TYPE=\"work,voice\""),
    T("PREF=1"), T("X=\"a;b\""), T(" Type = fax "), T("WORK"), T("pref"),
    T("w@k"), T(" "), <<>> }

ParamInputs ==
  { Join(tokens, <<SEMI>>) : tokens \in SeqsUpTo(ParamTokens, MaxParams) }

InitParams ==
  /\ pc = "input"
  /\ arg \in ParamInputs
  /\ ret = NONE
  /\ ret2 = NONE
  /\ NoLocals
  /\ NoAssembler

\* const map = new Map(); if (!paramStr) return map; parts = splitParamString
ParseParametersBegin ==
  /\ pc = "input"
  /\ map' = <<>>
  /\ warnings' = <<>>
  /\ IF arg = <<>>
     THEN /\ pc' = "done"
          /\ ret' = <<>>
          /\ UNCHANGED <<parts, idx>>
     ELSE /\ pc' = "loop"
          /\ parts' = splitParamString(arg)
          /\ idx' = 1
          /\ UNCHANGED ret
  /\ UNCHANGED <<arg, ret2, assembler>>

\* One pass of the for loop over parts
ParseParametersStep ==
  /\ pc = "loop"
  /\ idx <= Len(parts)
  /\ LET part == parts[idx]
     IN  CASE partKind(part) = "blank" ->
                UNCHANGED <<map, warnings>>
           [] partKind(part) = "malformed" ->
                /\ warnings' = Append(warnings,
                     [message |-> "Ignoring malformed parameter", part |-> part])
                /\ UNCHANGED map
           [] OTHER ->
                /\ map' = mergeParam(map, partName(part), partValue(part))
                /\ UNCHANGED warnings
  /\ idx' = idx + 1
  /\ UNCHANGED <<pc, arg, ret, ret2, parts, assembler>>

\* return map
ParseParametersReturn ==
  /\ pc = "loop"
  /\ idx > Len(parts)
  /\ ret' = map
  /\ pc' = "done"
  /\ UNCHANGED <<arg, ret2, locals, assembler>>

NextParams ==
  \/ ParseParametersBegin
  \/ ParseParametersStep
  \/ ParseParametersReturn

SpecParams == InitParams /\ [][NextParams]_vars

Scalar(name, value) == [name |-> T(name), list |-> FALSE, vals |-> <<T(value)>>]

List2(name, v1, v2) == [name |-> T(name), list |-> TRUE, vals |-> <<T(v1), T(v2)>>]

\* C6: parsing the parameter segment TYPE="work,voice";PREF=1 yields a TYPE
\* entry that is the two-element list [work, voice] and a scalar PREF entry 1
\* (a quoted value with commas is stored as the list of its members).
C6_QuotedCommaValueIsList ==
  (pc = "done" /\ arg = T("TYPE=\"work,voice\";PREF=1")) =>
     ret = << List2("TYPE", "work", "voice"), Scalar("PREF", "1") >>

\* The values of the occurrences of name among the pieces of sequence ps
OccurrenceValues(ps, name) ==
  LET occ == SelectSeq(ps, LAMBDA q : partKind(q) = "param" /\ partName(q) = name)
  IN  [k \in 1..Len(occ) |-> partValue(occ[k])]

OccurringNames(ps) ==
  {partName(ps[k]) : k \in {j \in 1..Len(ps) : partKind(ps[j]) = "param"}}

\* The map holds, for the pieces in ps, one entry per occurring name, with
\* exactly the values of its occurrences in order: a scalar for one, a list
\* for two or more.
HoldsAllOccurrences(m, ps) ==
  /\ {m[e].name : e \in 1..Len(m)} = OccurringNames(ps)
  /\ \A e, f \in 1..Len(m) : m[e].name = m[f].name => e = f
  /\ \A e \in 1..Len(m) :
       /\ m[e].vals = OccurrenceValues(ps, m[e].name)
       /\ m[e].list = (Len(m[e].vals) >= 2)

\* C7: while and after parseParameters processes a segment, the entry stored
\* for each name holds exactly the values of all occurrences of that name met
\* so far, in encounter order (names upper-cased, a bare token an occurrence
\* of TYPE with the token lower-cased): one occurrence is a scalar, two or
\* more a list, and no earlier value is overwritten or dropped.
C7_DuplicatesMergedNeverOverwritten ==
  /\ pc = "loop" => HoldsAllOccurrences(map, SubSeq(parts, 1, idx - 1))
  /\ (pc = "done" /\ arg # <<>>) => HoldsAllOccurrences(ret, parts)

\* TYPE=work;TYPE=home;WORK was parsed to the one entry TYPE = [work, home,
\* work].
C7_Witness ==
  /\ pc = "done"
  /\ arg = T("TYPE=work;TYPE=home;WORK")
  /\ ret = << [name |-> TYPE, list |-> TRUE,
               vals |-> <<T("work"), T("home"), T("work")>>] >>

---------------------------------------------------------------------------
(* Date and time values (property.ts)                                       *)

PLUS == Ord("+")
UpperT == Ord("T")
UpperZed == Ord("Z")
LowerZed == Ord("z")

\* An optional number: undefined, NaN or an integer
UNDEFINED == [def |-> FALSE, nan |-> FALSE, n |-> 0]

NaN == [def |-> TRUE, nan |-> TRUE, n |-> 0]

Num(n) == [def |-> TRUE, nan |-> FALSE, n |-> n]

\* An optional string (utcOffset)
NoString == [def |-> FALSE, s |-> <<>>]

Str(s) == [def |-> TRUE, s |-> s]

isDigit(c) == c >= Digit0 /\ c <= Digit9

\* String.prototype.slice(from, to) with 0 <= from <= to (0-based, to excluded)
slice(s, from, to) == SubSeq(s, from + 1, IF to < Len(s) THEN to ELSE Len(s))

\* Number of leading digits of s
digitPrefix(s) ==
  CHOOSE k \in 0..Len(s) :
    /\ \A i \in 1..k : isDigit(s[i])
    /\ k = Len(s) \/ ~isDigit(s[k + 1])

RECURSIVE decimal(_)
decimal(digits) ==
  IF digits = <<>> THEN 0
  ELSE 10 * decimal(SubSeq(digits, 1, Len(digits) - 1)) + (digits[Len(digits)] - Digit0)

\* parseInt(s, 10) of a string without white space: an optional sign and the
\* leading digits; NaN without a digit.
parseInt(s) ==
  LET signed == Len(s) >= 1 /\ s[1] \in {HYPHEN, PLUS}
      body == IF signed THEN Tail(s) ELSE s
      k == digitPrefix(body)
  IN  IF k = 0 THEN NaN
      ELSE IF signed /\ s[1] = HYPHEN THEN Num(0 - decimal(SubSeq(body, 1, k)))
      ELSE Num(decimal(SubSeq(body, 1, k)))

RECURSIVE digitsOf(_)
digitsOf(n) ==
  IF n < 10 THEN <<Digit0 + n>>
  ELSE Append(digitsOf(n \div 10), Digit0 + (n % 10))

\* String(x) of a number
String(x) ==
  IF x.nan THEN T("NaN")
  ELSE IF x.n < 0 THEN <<HYPHEN>> \o digitsOf(0 - x.n)
  ELSE digitsOf(x.n)

padStartNone(s, n) == s

\* String.prototype.padStart(n, '0')
padStart(s, n) == IF Len(s) >= n THEN s ELSE Rep(Digit0, n - Len(s)) \o s

\* value.replace(/\s/g, '') and .replace(/-/g, '') / .replace(/:/g, '')
removeAll(s, chars) == SelectSeq(s, LAMBDA c : c \notin chars)

startsWith(s, prefix) == Len(s) >= Len(prefix) /\ SubSeq(s, 1, Len(prefix)) = prefix

\* The suffix that /([Zz]|[+-]\d{2}:?\d{2})$/ matches in tp; <<>> without a match
offsetMatch(tp) ==
  LET n == Len(tp)
      numeric(len) ==
        /\ n >= len
        /\ tp[n - len + 1] \in {PLUS, HYPHEN}
        /\ isDigit(tp[n - len + 2]) /\ isDigit(tp[n - len + 3])
        /\ isDigit(tp[n - 1]) /\ isDigit(tp[n])
        /\ len = 6 => tp[n - 2] = COLON
  IN  IF numeric(6) THEN SubSeq(tp, n - 5, n)
      ELSE IF numeric(5) THEN SubSeq(tp, n - 4, n)
      ELSE IF n >= 1 /\ tp[n] \in {UpperZed, LowerZed} THEN <<tp[n]>>
      ELSE <<>>

NULL ==
  [isNull |-> TRUE, year |-> UNDEFINED, month |-> UNDEFINED, day |-> UNDEFINED,
   hour |-> UNDEFINED, minute |-> UNDEFINED, second |-> UNDEFINED,
   utcOffset |-> NoString, hasTime |-> FALSE]

\* An optional field read from the 0-based range from..to of clean, set only
\* when clean is long enough
fieldOf(clean, from, to) ==
  IF Len(clean) >= to THEN parseInt(slice(clean, from, to)) ELSE UNDEFINED

parseDateAndOrTime(value) ==
  IF value = <<>> THEN NULL
  ELSE
    LET v == removeAll(value, WhiteSpace)
        tIndex == indexOf(toUpperCase(v), UpperT)
        datePart == IF tIndex = 0 THEN v ELSE SubSeq(v, 1, tIndex - 1)
        timePart == IF tIndex = 0 THEN <<>> ELSE SubSeq(v, tIndex + 1, Len(v))
        monthDay == removeAll(SubSeq(datePart, 3, Len(datePart)), {HYPHEN})
        cleanDate == removeAll(datePart, {HYPHEN})
        branch == IF datePart = <<>> THEN "none"
                  ELSE IF startsWith(datePart, <<HYPHEN, HYPHEN>>) THEN "monthDay"
                  ELSE IF startsWith(datePart, <<HYPHEN, HYPHEN, HYPHEN>>) THEN "day"
                  ELSE "year"
        matched == offsetMatch(timePart)
        tp == SubSeq(timePart, 1, Len(timePart) - Len(matched))
        cleanTime == removeAll(tp, {COLON})
    IN  [isNull |-> FALSE,
         year |-> IF branch = "year" THEN fieldOf(cleanDate, 0, 4) ELSE UNDEFINED,
         month |-> CASE branch = "monthDay" -> fieldOf(monthDay, 0, 2)
                     [] branch = "year" -> fieldOf(cleanDate, 4, 6)
                     [] OTHER -> UNDEFINED,
         day |-> CASE branch = "monthDay" -> fieldOf(monthDay, 2, 4)
                   [] branch = "day" -> parseInt(SubSeq(datePart, 4, Len(datePart)))
                   [] branch = "year" -> fieldOf(cleanDate, 6, 8)
                   [] OTHER -> UNDEFINED,
         hour |-> IF timePart # <<>> THEN fieldOf(cleanTime, 0, 2) ELSE UNDEFINED,
         minute |-> IF timePart # <<>> THEN fieldOf(cleanTime, 2, 4) ELSE UNDEFINED,
         second |-> IF timePart # <<>> THEN fieldOf(cleanTime, 4, 6) ELSE UNDEFINED,
         utcOffset |-> IF timePart # <<>> /\ matched # <<>>
                       THEN Str(toUpperCase(matched)) ELSE NoString,
         hasTime |-> timePart # <<>>]

\* String(x).padStart(n, '0') of an optional number that is set
padded(x, n) == padStart(String(x), n)

formatDateAndOrTime(dt) ==
  LET datePart ==
        IF dt.year.def \/ dt.month.def \/ dt.day.def
        THEN IF ~dt.year.def /\ dt.month.def
             THEN <<HYPHEN, HYPHEN>> \o padded(dt.month, 2)
                    \o (IF dt.day.def THEN padded(dt.day, 2) ELSE <<>>)
             ELSE IF ~dt.year.def /\ dt.day.def
             THEN <<HYPHEN, HYPHEN, HYPHEN>> \o padded(dt.day, 2)
             ELSE (IF dt.year.def THEN padded(dt.year, 4) ELSE <<>>)
                    \o (IF dt.month.def THEN padded(dt.month, 2) ELSE <<>>)
                    \o (IF dt.day.def THEN padded(dt.day, 2) ELSE <<>>)
        ELSE <<>>
      timePart ==
        IF dt.hasTime /\ (dt.hour.def \/ dt.minute.def \/ dt.second.def)
        THEN <<UpperT>>
               \o (IF dt.hour.def THEN padded(dt.hour, 2) ELSE <<>>)
               \o (IF dt.minute.def THEN padded(dt.minute, 2) ELSE <<>>)
               \o (IF dt.second.def THEN padded(dt.second, 2) ELSE <<>>)
               \o (IF dt.utcOffset.def /\ dt.utcOffset.s # <<>> THEN dt.utcOffset.s ELSE <<>>)
        ELSE <<>>
  IN  datePart \o timePart

---------------------------------------------------------------------------
(* SpecDate: parseDateAndOrTime applied to a text, formatDateAndOrTime      *)
(* applied to the value it returned                                         *)

MaxJunk == 3

\* Two-digit fields: zero, a value with a leading zero, a two-digit value
Fields == {T("00"), T("07"), T("12")}

Years == {a \o b : a, b \in Fields}

FullDates == {y \o m \o d : y \in Years, m \in Fields, d \in Fields}

MonthDays == {<<HYPHEN, HYPHEN>> \o m \o d : m \in Fields, d \in Fields}

Times == {h \o m \o sec : h \in Fields, m \in Fields, sec \in Fields}

Offsets ==
  {<<UpperZed>>} \cup {<<sign>> \o h \o m : sign \in {PLUS, HYPHEN}, h \in Fields, m \in Fields}

DateTimes == {d \o <<UpperT>> \o t \o o : d \in FullDates, t \in Times, o \in Offsets}

\* The canonical basic forms: YYYY, YYYYMMDD, --MMDD, YYYYMMDDThhmmss with Z
\* or a +hhmm/-hhmm offset, and the examples of the documentation
CanonicalInputs ==
  Years \cup FullDates \cup MonthDays \cup DateTimes
    \cup {T("19901231"), T("--0315"), T("1990"), T("20240101T120000Z"),
          T("20240601T083000+0500")}

DayOnlyInputs == {<<HYPHEN, HYPHEN, HYPHEN>> \o d : d \in Fields}

MonthOnlyInputs == {<<HYPHEN, HYPHEN>> \o m : m \in Fields}

\* Short texts of a letter, a hyphen, a space, a digit and the T separator
JunkInputs == SeqsUpTo({Ord("x"), HYPHEN, SP, Ord("1"), UpperT}, MaxJunk)

DateInputs == CanonicalInputs \cup DayOnlyInputs \cup MonthOnlyInputs \cup JunkInputs

InitDate ==
  /\ pc = "input"
  /\ arg \in DateInputs
  /\ ret = NONE
  /\ ret2 = NONE
  /\ NoLocals
  /\ NoAssembler

ParseDateAndOrTime ==
  /\ pc = "input"
  /\ ret' = parseDateAndOrTime(arg)
  /\ pc' = "parsed"
  /\ UNCHANGED <<arg, ret2, locals, assembler>>

FormatDateAndOrTime ==
  /\ pc = "parsed"
  /\ ~ret.isNull
  /\ ret2' = formatDateAndOrTime(ret)
  /\ pc' = "formatted"
  /\ UNCHANGED <<arg, ret, locals, assembler>>

NextDate == ParseDateAndOrTime \/ FormatDateAndOrTime

SpecDate == InitDate /\ [][NextDate]_vars

\* C8: formatDateAndOrTime(parseDateAndOrTime(x)) = x for every x in a
\* canonical basic form (YYYY, YYYYMMDD, --MMDD, YYYYMMDDThhmmss followed by
\* Z or a +hhmm/-hhmm offset).
C8_CanonicalDateRoundTrip ==
  (pc = "formatted" /\ arg \in CanonicalInputs) => ret2 = arg

\* A date-time with leading zeros in every field and a negative offset was
\* parsed into all its components and formatted back to itself.
C8_Witness ==
  /\ pc = "formatted"
  /\ arg = T("00070712T070007-0712")
  /\ ret.year = Num(7) /\ ret.second = Num(7) /\ ret.utcOffset = Str(T("-0712"))
  /\ ret2 = arg

\* C9: a '---' prefix (---DD) yields day = DD and neither year nor month,
\* while a '--' prefix (--MM or --MMDD) yields the month (and day) with no
\* year.
C9_DayOnlyAndMonthOnlyPrefixes ==
  pc = "parsed" =>
    /\ \A d \in Fields :
         arg = <<HYPHEN, HYPHEN, HYPHEN>> \o d =>
           ret.day = Num(decimal(d)) /\ ~ret.year.def /\ ~ret.month.def
    /\ \A m \in Fields :
         arg = <<HYPHEN, HYPHEN>> \o m =>
           ret.month = Num(decimal(m)) /\ ~ret.day.def /\ ~ret.year.def
    /\ \A m, d \in Fields :
         arg = <<HYPHEN, HYPHEN>> \o m \o d =>
           ret.month = Num(decimal(m)) /\ ret.day = Num(decimal(d)) /\ ~ret.year.def

\* C10: parseDateAndOrTime returns null for an empty input, and it never
\* returns a value that has hasTime = false and no year, month or day (an
\* input from which nothing can be read gives null).
C10_NullWhenUnparseable ==
  pc = "parsed" =>
    /\ arg = <<>> => ret.isNull
    /\ ~ret.isNull => ret.hasTime \/ ret.year.def \/ ret.month.def \/ ret.day.def

---------------------------------------------------------------------------
(* Content lines, properties and blocks (the parser half of generator.ts)   *)

DOT == Ord(".")

\* A ParseWarning is a record with a message and, for some warnings, the
\* text the message quotes (part, name) or a line number (line).

\* parseParameters run to completion: the for loop from piece k on, with the
\* map m filled so far and the caller's warning list w
RECURSIVE parseParametersFrom(_, _, _, _)
parseParametersFrom(ps, k, m, w) ==
  IF k > Len(ps) THEN [map |-> m, warnings |-> w]
  ELSE CASE partKind(ps[k]) = "blank" ->
              parseParametersFrom(ps, k + 1, m, w)
         [] partKind(ps[k]) = "malformed" ->
              parseParametersFrom(ps, k + 1, m,
                Append(w, [message |-> "Ignoring malformed parameter", part |-> ps[k]]))
         [] OTHER ->
              parseParametersFrom(ps, k + 1,
                mergeParam(m, partName(ps[k]), partValue(ps[k])), w)

\* parseParameters(paramStr, warnings): the map returned and the warning
\* list as the call leaves it
parseParameters(paramStr, w) ==
  IF paramStr = <<>> THEN [map |-> <<>>, warnings |-> w]
  ELSE parseParametersFrom(splitParamString(paramStr), 1, <<>>, w)

firstColonAnywhere(line) == indexOf(line, COLON)

\* Index (from 1) of the first colon outside double quotes, 0 when there is
\* none: the scan of parseContentLine
firstColon(line) ==
  LET outside == {i \in 1..Len(line) : line[i] = COLON /\ ~inQuotesAt(line, i)}
  IN  IF outside = {} THEN 0
      ELSE CHOOSE i \in outside : \A j \in outside : i <= j

\* The null result of parseContentLine
NoRawProperty ==
  [isNull |-> TRUE, group |-> NoString, name |-> <<>>, parameters |-> <<>>,
   value |-> <<>>]

\* parseContentLine(line, warnings): the RawProperty returned (or null) and
\* the warning list as the call leaves it
parseContentLine(line, w) ==
  LET colonIdx == firstColon(line)
      namePart == SubSeq(line, 1, colonIdx - 1)
      value == SubSeq(line, colonIdx + 1, Len(line))
      semiIdx == indexOf(namePart, SEMI)
      nameAndGroup == IF semiIdx = 0 THEN namePart ELSE SubSeq(namePart, 1, semiIdx - 1)
      paramStr == IF semiIdx = 0 THEN <<>> ELSE SubSeq(namePart, semiIdx + 1, Len(namePart))
      dotIdx == indexOf(nameAndGroup, DOT)
      group == IF dotIdx # 0 THEN Str(trim(SubSeq(nameAndGroup, 1, dotIdx - 1)))
               ELSE NoString
      name == IF dotIdx # 0
              THEN toUpperCase(trim(SubSeq(nameAndGroup, dotIdx + 1, Len(nameAndGroup))))
              ELSE toUpperCase(trim(nameAndGroup))
      parsed == parseParameters(paramStr, w)
  IN  IF colonIdx = 0
      THEN [raw |-> NoRawProperty,
            warnings |-> Append(w, [message |-> "Skipping line with no colon",
                                    part |-> slice(line, 0, 40)])]
      ELSE IF name = <<>>
      THEN [raw |-> NoRawProperty,
            warnings |-> Append(w, [message |-> "Skipping line with empty property name"])]
      ELSE [raw |-> [isNull |-> FALSE, group |-> group, name |-> name,
                     parameters |-> parsed.map, value |-> value],
            warnings |-> parsed.warnings]

\* Property names by the class instantiateProperty builds for them
TextNames ==
  { T("FN"), T("EMAIL"), T("TITLE"), T("ROLE"), T("NOTE"), T("PRODID"),
    T("KIND"), T("XML") }

UriNames ==
  { T("PHOTO"), T("IMPP"), T("LOGO"), T("MEMBER"), T("SOUND"), T("URL"),
    T("FBURL"), T("CALADRURI"), T("CALURI"), T("SOURCE") }

\* Names with a value parser of their own (fromText, parseTextList, ...)
StructuredNames ==
  { T("N"), T("NICKNAME"), T("BDAY"), T("ANNIVERSARY"), T("ADR"), T("TEL"),
    T("LANG"), T("TZ"), T("GEO"), T("ORG"), T("RELATED"), T("CATEGORIES"),
    T("REV"), T("UID"), T("CLIENTPIDMAP"), T("KEY") }

GENDER == T("GENDER")

\* GenderProperty.fromText: the Gender value read from the text
genderFromText(text) ==
  LET semi == indexOf(text, SEMI)
      identity == unescapeText(SubSeq(text, semi + 1, Len(text)))
  IN  IF semi = 0 THEN [sex |-> toUpperCase(text), identity |-> NoString]
      ELSE [sex |-> toUpperCase(SubSeq(text, 1, semi - 1)),
            identity |-> IF identity = <<>> THEN NoString ELSE Str(identity)]

\* v3-only names stored verbatim without a warning
V3Names == { T("LABEL"), T("MAILER"), T("CLASS"), T("PROFILE"), T("NAME") }

\* A Property: its class, name, group, parameters and value
Property(class, name, value, params, group) ==
  [class |-> class, name |-> toUpperCase(name), group |-> group,
   params |-> params, value |-> value]

\* The default branch of instantiateProperty: a name that is neither X- nor
\* VND. prefixed adds a warning
quietUnknown(w, name) == w

unknownProperty(w, name) ==
  IF ~startsWith(name, T("X-")) /\ ~startsWith(name, T("VND."))
  THEN Append(w, [message |-> "Unknown property", name |-> name])
  ELSE w

\* instantiateProperty(raw, warnings): the Property built and the warning
\* list as the call leaves it.  A property of StructuredNames keeps the raw
\* text as its value here (class "Structured"): the value parsers of these
\* classes add no warning, and no line of the inputs below carries such a
\* name or an ENCODING parameter (the quoted-printable decoding step).
instantiateProperty(raw, w) ==
  LET name == raw.name
      v == raw.value
  IN  IF name \in TextNames
      THEN [prop |-> Property("TextProperty", name, unescapeText(v), raw.parameters, raw.group),
            warnings |-> w]
      ELSE IF name \in UriNames
      THEN [prop |-> Property("UriProperty", name, v, raw.parameters, raw.group),
            warnings |-> w]
      ELSE IF name = GENDER
      THEN [prop |-> Property("GenderProperty", name, genderFromText(v), raw.parameters, raw.group),
            warnings |-> w]
      ELSE IF name \in StructuredNames
      THEN [prop |-> Property("Structured", name, v, raw.parameters, raw.group),
            warnings |-> w]
      ELSE IF name \in V3Names
      THEN [prop |-> Property("UnknownProperty", name, v, raw.parameters, raw.group),
            warnings |-> w]
      ELSE [prop |-> Property("UnknownProperty", name, v, raw.parameters, raw.group),
            warnings |-> unknownProperty(w, name)]

VERSION == T("VERSION")

\* The for loop of parseVCardBlock from line k on
RECURSIVE parseVCardBlockFrom(_, _, _, _, _)
parseVCardBlockFrom(ls, k, version, properties, w) ==
  IF k > Len(ls)
  THEN [version |-> version, properties |-> properties, warnings |-> w]
  ELSE LET line == ls[k]
           push(made) ==
             parseVCardBlockFrom(ls, k + 1, version, Append(properties, made.prop),
                                 made.warnings)
           onParsed(parsed) ==
             IF parsed.raw.isNull
             THEN parseVCardBlockFrom(ls, k + 1, version, properties, parsed.warnings)
             ELSE IF parsed.raw.name = VERSION
             THEN parseVCardBlockFrom(ls, k + 1, trim(parsed.raw.value), properties,
                                      parsed.warnings)
             ELSE push(instantiateProperty(parsed.raw, parsed.warnings))
       IN  IF startsWith(toUpperCase(line), T("VERSION:"))
           THEN parseVCardBlockFrom(ls, k + 1, trim(slice(line, 8, Len(line))),
                                    properties, w)
           ELSE onParsed(parseContentLine(line, w))

\* parseVCardBlock(lines, warnings): the RawVCard; its warnings are the
\* caller's list with the block's warnings appended
parseVCardBlock(ls, w) == parseVCardBlockFrom(ls, 1, T("4.0"), <<>>, w)

\* line.toUpperCase().trim() of parseVCardText
markerText(line) == trim(toUpperCase(line))

BEGIN_VCARD == T("BEGIN:VCARD")

END_VCARD == T("END:VCARD")

\* The warning of an END:VCARD met outside a block, at loop index n (from 0)
mutedStrayEnd(w, n) == w

unexpectedEnd(w, n) ==
  Append(w, [line |-> n + 1, message |-> "Unexpected END:VCARD without BEGIN:VCARD"])

\* currentLines after a BEGIN:VCARD
keptOnBegin(cur) == cur

resetOnBegin(cur) == <<>>

\* The warning list a block parsed at end of input starts with
UnclosedWarnings ==
  << [message |-> "Unclosed vCard (missing END:VCARD)"] >>

\* VCard.addProperty on the property list of a card: a name of cardinality
\* *1 replaces the property held for it
SingularNames ==
  { T("N"), T("BDAY"), T("ANNIVERSARY"), T("GENDER"), T("PRODID"), T("REV"),
    T("UID"), T("KIND") }

addProperty(props, prop) ==
  IF prop.name \in SingularNames
  THEN Append(SelectSeq(props, LAMBDA p : p.name # prop.name), prop)
  ELSE Append(props, prop)

RECURSIVE addProperties(_, _)
addProperties(props, more) ==
  IF more = <<>> THEN props
  ELSE addProperties(addProperty(props, Head(more)), Tail(more))

\* VCard.fromRaw
fromRaw(properties, w, version) ==
  [parsedVersion |-> version, parseWarnings |-> w,
   properties |-> addProperties(<<>>, properties)]

---------------------------------------------------------------------------
(* SpecParse: parseVCardText run on a text, one unfolded line per step of   *)
(* its for loop, then the mapping of VCard.parse applied to the result      *)

MaxLines == 4

\* Lines for the block assembler: the markers (also in lower case with a
\* trailing blank), a content line and a line without a colon
AssemblerLines ==
  { BEGIN_VCARD, END_VCARD, T("begin:vcard "), T("end:vcard "), T("FN:A"),
    T("NOTE") }

AssemblerInputs ==
  { Join(ls, CRLF) : ls \in SeqsUpTo(AssemblerLines, MaxLines) }

\* Content lines: well-formed ones (one with a group, a parameter and a
\* second colon, one folded, one with an escape), VERSION lines, and one for
\* each anomaly of a line
ContentLines ==
  { T("FN:A\\, B"), T("item1.NOTE;TYPE=work:a:b"), T("URL:http://a") \o CRLF \o T(" /b"),
    T("VERSION:3.0"), T("version;X=1: 2.1"), T("X-A:1"), T("vnd.b:1"), T("LABEL:x"),
    T("NOTE"), T("NOTE;X=\"a:b"), T(":x"), T("g. ;X=1:x"), T("NOTE;w@k:n"),
    T(";w@k:n"), T("FOO:1"), T("FOO;w@k;a b:1") }

BlockInputs ==
  { Join(<<BEGIN_VCARD, l1, l2, END_VCARD>>, CRLF) \o CRLF : l1, l2 \in ContentLines }
  \cup { Join(<<l1, BEGIN_VCARD, l2>>, <<LF>>) : l1, l2 \in ContentLines }

ParseInputs == AssemblerInputs \cup BlockInputs

InitParse ==
  /\ pc = "input"
  /\ arg \in ParseInputs
  /\ ret = NONE
  /\ ret2 = NONE
  /\ NoLocals
  /\ NoAssembler

\* warnings = [], rawVCards = [], lines = unfoldLines(input), inVCard = false,
\* currentLines = []
ParseVCardTextBegin ==
  /\ pc = "input"
  /\ pc' = "loop"
  /\ warnings' = <<>>
  /\ rawVCards' = <<>>
  /\ lines' = unfoldLines(arg)
  /\ inVCard' = FALSE
  /\ currentLines' = <<>>
  /\ lineIdx' = 1
  /\ UNCHANGED <<arg, ret, ret2, parts, idx, map, frames>>

\* A pass of the for loop at a BEGIN:VCARD line
ParseVCardTextOnBegin ==
  /\ pc = "loop"
  /\ lineIdx <= Len(lines)
  /\ markerText(lines[lineIdx]) = BEGIN_VCARD
  /\ inVCard' = TRUE
  /\ currentLines' = resetOnBegin(currentLines)
  /\ lineIdx' = lineIdx + 1
  /\ UNCHANGED <<pc, arg, ret, ret2, locals, lines, rawVCards, frames>>

\* A pass of the for loop at an END:VCARD line met outside a block
ParseVCardTextOnStrayEnd ==
  /\ pc = "loop"
  /\ lineIdx <= Len(lines)
  /\ markerText(lines[lineIdx]) # BEGIN_VCARD
  /\ markerText(lines[lineIdx]) = END_VCARD
  /\ ~inVCard
  /\ warnings' = unexpectedEnd(warnings, lineIdx - 1)
  /\ lineIdx' = lineIdx + 1
  /\ UNCHANGED <<pc, arg, ret, ret2, parts, idx, map, lines, inVCard,
                 currentLines, rawVCards, frames>>

\* A pass of the for loop at an END:VCARD line met inside a block
ParseVCardTextOnEnd ==
  /\ pc = "loop"
  /\ lineIdx <= Len(lines)
  /\ markerText(lines[lineIdx]) # BEGIN_VCARD
  /\ markerText(lines[lineIdx]) = END_VCARD
  /\ inVCard
  /\ inVCard' = FALSE
  /\ rawVCards' = Append(rawVCards, parseVCardBlock(currentLines, <<>>))
  /\ warnings' = warnings \o rawVCards'[Len(rawVCards')].warnings
  /\ currentLines' = <<>>
  /\ lineIdx' = lineIdx + 1
  /\ UNCHANGED <<pc, arg, ret, ret2, parts, idx, map, lines, frames>>

\* A pass of the for loop at any other line
ParseVCardTextOnLine ==
  /\ pc = "loop"
  /\ lineIdx <= Len(lines)
  /\ markerText(lines[lineIdx]) # BEGIN_VCARD
  /\ markerText(lines[lineIdx]) # END_VCARD
  /\ currentLines' = IF inVCard THEN Append(currentLines, lines[lineIdx])
                     ELSE currentLines
  /\ lineIdx' = lineIdx + 1
  /\ UNCHANGED <<pc, arg, ret, ret2, locals, lines, inVCard, rawVCards, frames>>

\* After the loop: an unclosed block is parsed anyway; return
ParseVCardTextReturn ==
  /\ pc = "loop"
  /\ lineIdx > Len(lines)
  /\ IF inVCard
     THEN /\ rawVCards' = Append(rawVCards, parseVCardBlock(currentLines, UnclosedWarnings))
          /\ warnings' = warnings \o rawVCards'[Len(rawVCards')].warnings
     ELSE UNCHANGED <<rawVCards, warnings>>
  /\ ret' = [rawVCards |-> rawVCards', warnings |-> warnings']
  /\ pc' = "parsed"
  /\ UNCHANGED <<arg, ret2, parts, idx, map, lines, lineIdx, inVCard, currentLines, frames>>

\* VCard.parse: rawVCards.map(raw => VCard.fromRaw(...)) on the ParseResult
VCardParse ==
  /\ pc = "parsed"
  /\ ret2' = [k \in 1..Len(ret.rawVCards) |->
                fromRaw(ret.rawVCards[k].properties, ret.rawVCards[k].warnings,
                        ret.rawVCards[k].version)]
  /\ pc' = "returned"
  /\ UNCHANGED <<arg, ret, locals, assembler>>

NextParse ==
  \/ ParseVCardTextBegin
  \/ ParseVCardTextOnBegin
  \/ ParseVCardTextOnStrayEnd
  \/ ParseVCardTextOnEnd
  \/ ParseVCardTextOnLine
  \/ ParseVCardTextReturn
  \/ VCardParse

SpecParse == InitParse /\ [][NextParse]_vars

\* Markers of a line list, read off the text of the lines
IsBegin(ls, k) == markerText(ls[k]) = BEGIN_VCARD

IsEnd(ls, k) == ~IsBegin(ls, k) /\ markerText(ls[k]) = END_VCARD

\* Index of the last marker before line k, 0 when there is none
LastMarkerBefore(ls, k) ==
  LET before == {j \in 1..(k - 1) : IsBegin(ls, j) \/ IsEnd(ls, j)}
  IN  IF before = {} THEN 0 ELSE CHOOSE j \in before : \A m \in before : m <= j

\* Line k (or the end of the list, k = Len(ls) + 1) is met inside a block
Inside(ls, k) == LastMarkerBefore(ls, k) # 0 /\ IsBegin(ls, LastMarkerBefore(ls, k))

\* The lines between the most recent marker before k and k
LinesBefore(ls, k) == SubSeq(ls, LastMarkerBefore(ls, k) + 1, k - 1)

ClosingEnds(ls) ==
  SelectSeq([k \in 1..Len(ls) |-> k], LAMBDA k : IsEnd(ls, k) /\ Inside(ls, k))

StrayEnds(ls) == {k \in 1..Len(ls) : IsEnd(ls, k) /\ ~Inside(ls, k)}

\* One block per end marker met inside a block, in order
ClosedBlocks(ls) ==
  [n \in 1..Len(ClosingEnds(ls)) |->
     parseVCardBlock(LinesBefore(ls, ClosingEnds(ls)[n]), <<>>)]

\* ... and one more when the list ends inside a block
AllBlocks(ls) ==
  IF Inside(ls, Len(ls) + 1)
  THEN Append(ClosedBlocks(ls),
              parseVCardBlock(LinesBefore(ls, Len(ls) + 1), UnclosedWarnings))
  ELSE ClosedBlocks(ls)

AtStrayEnd ==
  /\ pc = "loop"
  /\ lineIdx <= Len(lines)
  /\ lineIdx \in StrayEnds(lines)

\* C11: in parseVCardText an end marker met outside a block adds exactly one
\* Warning, emits no block and leaves the assembler outside a block with
\* nothing accumulated; the blocks of the result are those of the input with
\* its stray end markers taken out.
C11_StrayEndOnlyWarns ==
  /\ [][AtStrayEnd =>
          /\ Len(warnings') = Len(warnings) + 1
          /\ SubSeq(warnings', 1, Len(warnings)) = warnings
          /\ rawVCards' = rawVCards
          /\ ~inVCard /\ ~inVCard'
          /\ currentLines = <<>> /\ currentLines' = <<>>]_vars
  /\ [](pc = "parsed" =>
          ret.rawVCards = AllBlocks(deleteAt(lines, StrayEnds(lines))))

\* END:VCARD before a complete card: one warning, and the card is parsed
C11_Witness ==
  /\ pc = "parsed"
  /\ lines = <<END_VCARD, BEGIN_VCARD, T("FN:A"), END_VCARD>>
  /\ Len(ret.warnings) = 1
  /\ ret.warnings[1].line = 1
  /\ Len(ret.rawVCards) = 1
  /\ Len(ret.rawVCards[1].properties) = 1

\* C12: parseVCardText emits its blocks in input order, one per end marker
\* met inside a block and one more, with the unclosed warning, when the
\* input ends inside a block; each block is built from exactly the lines
\* between its most recent begin marker and its end marker or the end of
\* input; lines outside a block belong to no block, and a begin marker inside
\* an open block discards the lines accumulated so far.
C12_BlocksInOrder ==
  /\ pc = "loop" =>
       /\ rawVCards = ClosedBlocks(SubSeq(lines, 1, lineIdx - 1))
       /\ inVCard = Inside(lines, lineIdx)
       /\ currentLines = IF inVCard THEN LinesBefore(lines, lineIdx) ELSE <<>>
  /\ pc = "parsed" =>
       /\ ret.rawVCards = AllBlocks(lines)
       /\ Inside(lines, Len(lines) + 1) =>
            ret.rawVCards[Len(ret.rawVCards)].warnings[1] = UnclosedWarnings[1]

\* A begin marker inside an open block dropped the line before it; the
\* block that followed was left unclosed
C12_Witness ==
  /\ pc = "parsed"
  /\ lines = <<BEGIN_VCARD, T("NOTE"), T("begin:vcard "), T("FN:A")>>
  /\ Len(ret.rawVCards) = 1
  /\ ret.rawVCards[1].warnings = UnclosedWarnings
  /\ Len(ret.rawVCards[1].properties) = 1


\* The anomalies of one line of a block, read off the text of the line
HeadOf(line) == SubSeq(line, 1, firstColon(line) - 1)

NameSegmentOf(line) ==
  IF indexOf(HeadOf(line), SEMI) = 0 THEN HeadOf(line)
  ELSE SubSeq(HeadOf(line), 1, indexOf(HeadOf(line), SEMI) - 1)

NameOf(line) ==
  toUpperCase(trim(SubSeq(NameSegmentOf(line), indexOf(NameSegmentOf(line), DOT) + 1,
                          Len(NameSegmentOf(line)))))

TokensOf(line) ==
  IF indexOf(HeadOf(line), SEMI) = 0 THEN <<>>
  ELSE splitParamString(SubSeq(HeadOf(line), indexOf(HeadOf(line), SEMI) + 1,
                               Len(HeadOf(line))))

IsVersionLine(line) == startsWith(toUpperCase(line), T("VERSION:"))

HasNoColon(line) == \A i \in 1..Len(line) : line[i] = COLON => inQuotesAt(line, i)

HasEmptyName(line) == ~HasNoColon(line) /\ NameOf(line) = <<>>

MalformedTokens(line) ==
  IF HasNoColon(line) \/ HasEmptyName(line) THEN {}
  ELSE {TokensOf(line)[k] : k \in {j \in 1..Len(TokensOf(line)) :
                                     partKind(TokensOf(line)[j]) = "malformed"}}

IsUnrecognized(line) ==
  /\ ~HasNoColon(line)
  /\ ~HasEmptyName(line)
  /\ NameOf(line) \notin
       TextNames \cup UriNames \cup StructuredNames \cup V3Names \cup {GENDER, VERSION}
  /\ ~startsWith(NameOf(line), T("X-"))
  /\ ~startsWith(NameOf(line), T("VND."))

IsAnomalous(line) ==
  /\ ~IsVersionLine(line)
  /\ \/ HasNoColon(line)
     \/ HasEmptyName(line)
     \/ MalformedTokens(line) # {}
     \/ IsUnrecognized(line)

Anomalies(ls) == Cardinality({k \in 1..Len(ls) : IsAnomalous(ls[k])})

\* The warnings that name the anomalies of a line are all in warning list w
AnomaliesNamed(line, w) ==
  LET given == {w[k] : k \in 1..Len(w)}
  IN  IsVersionLine(line) \/
      /\ HasNoColon(line) =>
           [message |-> "Skipping line with no colon", part |-> slice(line, 0, 40)] \in given
      /\ HasEmptyName(line) =>
           [message |-> "Skipping line with empty property name"] \in given
      /\ \A token \in MalformedTokens(line) :
           [message |-> "Ignoring malformed parameter", part |-> token] \in given
      /\ IsUnrecognized(line) =>
           [message |-> "Unknown property", name |-> NameOf(line)] \in given

\* The lines each block of AllBlocks(ls) is built from, in block order
BlockLines(ls) ==
  LET closed == [n \in 1..Len(ClosingEnds(ls)) |-> LinesBefore(ls, ClosingEnds(ls)[n])]
  IN  IF Inside(ls, Len(ls) + 1) THEN Append(closed, LinesBefore(ls, Len(ls) + 1))
      ELSE closed

\* The non-marker lines met outside a block
OutsideLines(ls) ==
  {k \in 1..Len(ls) : ~IsBegin(ls, k) /\ ~IsEnd(ls, k) /\ ~Inside(ls, k)}

Unclosed(ls) == IF Inside(ls, Len(ls) + 1) THEN 1 ELSE 0

RECURSIVE SumOf(_)
SumOf(ns) == IF ns = <<>> THEN 0 ELSE Head(ns) + SumOf(Tail(ns))

\* C13 as stated: the parse result holds at least one Warning for every
\* anomaly of the input, a line outside begin/end counted as an anomaly
\* like a stray end marker, an unclosed block and an anomalous line of a
\* block.
C13_Original ==
  pc = "parsed" =>
    Len(ret.warnings) >=
      Cardinality(OutsideLines(lines)) + Cardinality(StrayEnds(lines))
      + Unclosed(lines)
      + SumOf([n \in 1..Len(BlockLines(lines)) |-> Anomalies(BlockLines(lines)[n])])

\* C13 (amended): parsing raises no exception (the parser has no throw; the
\* run ends with the ParseResult), and every line of an emitted block that
\* has no colon outside quotes, an empty property name, a malformed parameter
\* token or an unrecognized name (not known, not X- or VND. prefixed) adds at
\* least one Warning to its block, naming the anomaly; an unclosed block adds one
\* Warning to its block and a stray end marker one to the result; the
\* warnings of the result are those of its blocks and of the stray end
\* markers and no others: a line outside begin/end, or one dropped by a begin
\* marker inside an open block, is ignored without a Warning.
C13_AnomaliesInBlocksWarn ==
  pc = "parsed" =>
    /\ ret = [rawVCards |-> rawVCards, warnings |-> warnings]
    /\ Len(ret.rawVCards) = Len(BlockLines(lines))
    /\ \A n \in 1..Len(ret.rawVCards) :
         LET given == ret.rawVCards[n].warnings
             from == BlockLines(lines)[n]
             last == IF n = Len(ret.rawVCards) THEN Unclosed(lines) ELSE 0
         IN  /\ Len(given) >= Anomalies(from) + last
             /\ \A k \in 1..Len(from) : AnomaliesNamed(from[k], given)
             /\ last = 1 => given[1] = UnclosedWarnings[1]
    /\ Len(ret.warnings) =
         Cardinality(StrayEnds(lines))
         + SumOf([n \in 1..Len(ret.rawVCards) |-> Len(ret.rawVCards[n].warnings)])

\* A line without a colon outside any block left no warning; the unclosed
\* block after it gave its own warning, two for the malformed tokens of its
\* line and one for the unknown name FOO.
C13_Witness ==
  /\ pc = "parsed"
  /\ lines = <<T("NOTE"), BEGIN_VCARD, T("FOO;w@k;a b:1")>>
  /\ Len(ret.rawVCards) = 1
  /\ Len(ret.warnings) = 4
  /\ ret.warnings[4] = [message |-> "Unknown property", name |-> T("FOO")]

\* C20: every Warning that parseVCardText produced for the input of
\* VCard.parse is in the parseWarnings of at least one returned VCard.
C20_NoWarningDiscarded ==
  pc = "returned" =>
    \A k \in 1..Len(ret.warnings) :
      \E c \in 1..Len(ret2) :
        \E j \in 1..Len(ret2[c].parseWarnings) :
          ret2[c].parseWarnings[j] = ret.warnings[k]

---------------------------------------------------------------------------
(* Generation (the generator half of generator.ts, escape.ts, property.ts)  *)

\* /[;:,"]/.test(value)
needsParamQuoting(value) ==
  \E i \in 1..Len(value) : value[i] \in {SEMI, COLON, COMMA, QUOTE}

quoteParamValue(value) ==
  IF ~needsParamQuoting(value) THEN value
  ELSE <<QUOTE>>
       \o replaceChar(replaceChar(value, BACKSLASH, <<BACKSLASH, BACKSLASH>>),
                      QUOTE, <<BACKSLASH, QUOTE>>)
       \o <<QUOTE>>

\* The text serializeParameters pushes for one entry of the map
serializeEntry(entry) ==
  IF entry.list
  THEN entry.name \o <<EQUALS>>
       \o Join([k \in 1..Len(entry.vals) |-> quoteParamValue(entry.vals[k])], <<COMMA>>)
  ELSE entry.name \o <<EQUALS>> \o quoteParamValue(entry.vals[1])

serializeParameters(params) ==
  LET emitted == SelectSeq(params, LAMBDA entry : ~(entry.list /\ entry.vals = <<>>))
  IN  Join([k \in 1..Len(emitted) |-> serializeEntry(emitted[k])], <<SEMI>>)

\* A Date: its time value (NaN for an invalid Date) and, for a valid one,
\* its UTC fields
InvalidDate ==
  [time |-> NaN, year |-> NaN, month |-> NaN, date |-> NaN, hours |-> NaN,
   minutes |-> NaN, seconds |-> NaN]

\* x + 1 of getUTCMonth() + 1
plusOne(x) == IF x.nan THEN NaN ELSE Num(x.n + 1)

\* RevProperty.toContentLine of a Date
revTimestamp(dt) ==
  padStart(String(dt.year), 4) \o padStart(String(plusOne(dt.month)), 2)
  \o padStart(String(dt.date), 2) \o <<UpperT>> \o padStart(String(dt.hours), 2)
  \o padStart(String(dt.minutes), 2) \o padStart(String(dt.seconds), 2) \o <<UpperZed>>

\* prop.toContentLine() of the classes TextProperty (FN, NOTE, ...),
\* UriProperty, UnknownProperty, GenderProperty and RevProperty
toContentLine(prop) ==
  CASE prop.class = "TextProperty" -> escapeText(prop.value)
    [] prop.class = "UriProperty" -> prop.value
    [] prop.class = "UnknownProperty" -> prop.value
    [] prop.class = "GenderProperty" ->
         IF ~prop.value.identity.def \/ prop.value.identity.s = <<>>
         THEN prop.value.sex
         ELSE prop.value.sex \o <<SEMI>> \o escapeStructuredComponent(prop.value.identity.s)
    [] prop.class = "RevProperty" ->
         IF prop.value.isDate THEN revTimestamp(prop.value.date) ELSE prop.value.text

\* The content line before folding: `${namePart}${separator}:${value}`
contentLine(group, name, params, value) ==
  LET namePart == IF group.def /\ group.s # <<>> THEN group.s \o <<DOT>> \o name ELSE name
      paramStr == serializeParameters(params)
      separator == IF paramStr # <<>> THEN <<SEMI>> \o paramStr ELSE <<>>
  IN  namePart \o separator \o <<COLON>> \o value

serializeProperty(prop) ==
  foldLine(contentLine(prop.group, prop.name, prop.params, toContentLine(prop)))

\* PROPERTY_ORDER: the names in the order of their ranks 1 .. 35
PROPERTY_ORDER ==
  << T("FN"), T("N"), T("NICKNAME"), T("GENDER"), T("BDAY"), T("ANNIVERSARY"),
     T("ORG"), T("TITLE"), T("ROLE"), T("EMAIL"), T("TEL"), T("ADR"), T("URL"),
     T("IMPP"), T("LANG"), T("TZ"), T("GEO"), T("PHOTO"), T("LOGO"), T("SOUND"),
     T("NOTE"), T("CATEGORIES"), T("SOURCE"), T("XML"), T("KEY"), T("FBURL"),
     T("CALADRURI"), T("CALURI"), T("MEMBER"), T("RELATED"), T("UID"), T("REV"),
     T("PRODID"), T("KIND"), T("CLIENTPIDMAP") >>

\* The stable sort of orderProperties: the properties of each rank in their
\* given order, the names without a rank (rank 100) last
orderProperties(properties) ==
  Join([r \in 1..Len(PROPERTY_ORDER) |->
          SelectSeq(properties, LAMBDA p : p.name = PROPERTY_ORDER[r])], <<>>)
  \o SelectSeq(properties,
       LAMBDA p : \A r \in 1..Len(PROPERTY_ORDER) : p.name # PROPERTY_ORDER[r])

PREF == T("PREF")

\* The getter Property.pref: undefined without a PREF entry, for an empty or
\* list value and when parseInt gives NaN
pref(prop) ==
  IF ~mapHas(prop.params, PREF) THEN UNDEFINED
  ELSE LET entry == prop.params[mapIndex(prop.params, PREF)]
       IN  IF entry.list \/ entry.vals[1] = <<>> THEN UNDEFINED
           ELSE IF parseInt(entry.vals[1]).nan THEN UNDEFINED
           ELSE parseInt(entry.vals[1])

\* pref !== undefined && (pref < 1 || pref > 100 || !Number.isInteger(pref));
\* pref comes from parseInt and is an integer
invalidPrefBelow(n) == n.def /\ n.n < 1

invalidPref(n) == n.def /\ (n.n < 1 \/ n.n > 100)

validSex == { T("M"), T("F"), T("O"), T("N"), T("U"), <<>> }

NoError == [threw |-> FALSE, property |-> <<>>]

VCardError(property) == [threw |-> TRUE, property |-> property]

\* The first element of a non-empty set of indices
First(S) == CHOOSE i \in S : \A j \in S : i <= j

\* validateForGeneration: the VCardError thrown, or none
validateForGeneration(properties) ==
  LET all == 1..Len(properties)
      badPref == {k \in all : invalidPref(pref(properties[k]))}
      badSex == {k \in all : /\ properties[k].name = GENDER
                             /\ properties[k].value.sex \notin validSex}
      badRev == {k \in all : /\ properties[k].name = T("REV")
                             /\ properties[k].value.isDate
                             /\ properties[k].value.date.time.nan}
  IN  IF \A k \in all : properties[k].name # T("FN") THEN VCardError(T("FN"))
      ELSE IF badPref # {} THEN VCardError(properties[First(badPref)].name)
      ELSE IF badSex # {} THEN VCardError(GENDER)
      ELSE IF badRev # {} THEN VCardError(T("REV"))
      ELSE NoError

\* serializeVCard(properties, {validate}): the error thrown, or the output
serializeVCard(properties, validate) ==
  LET error == IF validate THEN validateForGeneration(properties) ELSE NoError
      emitted == orderProperties(SelectSeq(properties, LAMBDA p : p.name # VERSION))
  IN  IF error.threw THEN [threw |-> TRUE, property |-> error.property, output |-> NONE]
      ELSE [threw |-> FALSE, property |-> <<>>,
            output |-> BEGIN_VCARD \o CRLF \o T("VERSION:4.0") \o CRLF
                       \o Join([k \in 1..Len(emitted) |-> serializeProperty(emitted[k])], <<>>)
                       \o END_VCARD \o CRLF]

\* rawVCards.push(card); warnings.push(...card.warnings) on the ParseResult
\* built so far
pushCard(result, card) ==
  [rawVCards |-> Append(result.rawVCards, card),
   warnings |-> result.warnings \o card.warnings]

\* The for loop of parseVCardText from line k on, and what follows it
RECURSIVE parseVCardTextFrom(_, _, _, _, _)
parseVCardTextFrom(ls, k, inV, cur, result) ==
  IF k > Len(ls)
  THEN IF inV THEN pushCard(result, parseVCardBlock(cur, UnclosedWarnings))
       ELSE result
  ELSE IF markerText(ls[k]) = BEGIN_VCARD
  THEN parseVCardTextFrom(ls, k + 1, TRUE, resetOnBegin(cur), result)
  ELSE IF markerText(ls[k]) = END_VCARD
  THEN IF ~inV
       THEN parseVCardTextFrom(ls, k + 1, inV, cur,
              [result EXCEPT !.warnings = unexpectedEnd(@, k - 1)])
       ELSE parseVCardTextFrom(ls, k + 1, FALSE, <<>>,
              pushCard(result, parseVCardBlock(cur, <<>>)))
  ELSE parseVCardTextFrom(ls, k + 1, inV, IF inV THEN Append(cur, ls[k]) ELSE cur,
                          result)

\* parseVCardText(input), run to completion
parseVCardText(input) ==
  parseVCardTextFrom(unfoldLines(input), 1, FALSE, <<>>,
                     [rawVCards |-> <<>>, warnings |-> <<>>])

---------------------------------------------------------------------------
(* SpecGen: serializeVCard applied to a property list, parseVCardText       *)
(* applied to the output                                                    *)

MaxProps == 2

FoldedLen == 80

NoParams == <<>>

FNProperty(value) == Property("TextProperty", T("FN"), value, NoParams, NoString)

NoteProperty(value, params) == Property("TextProperty", T("NOTE"), value, params, NoString)

GenderProperty(sex) ==
  Property("GenderProperty", GENDER, [sex |-> sex, identity |-> Str(T("x;y"))],
           NoParams, NoString)

RevProperty(dt) ==
  Property("RevProperty", T("REV"), [isDate |-> TRUE, date |-> dt, text |-> <<>>],
           NoParams, NoString)

\* new Date(Date.UTC(2020, 0, 2, 3, 4, 5))
SomeDate ==
  [time |-> Num(1577934245), year |-> Num(2020), month |-> Num(0), date |-> Num(2),
   hours |-> Num(3), minutes |-> Num(4), seconds |-> Num(5)]

\* Text values: plain, with every character escapeText rewrites, with a
\* lone CR, with CR LF and a blank, and one long enough to be folded
TextValues ==
  << T("A"), <<Fill, COMMA, SEMI, BACKSLASH, LowerN, LF, Fill>>, <<Fill, CR, Fill>>,
     <<Fill, CR, LF, SP, Fill>>,
     Rep(Fill, FoldedLen) \o <<COMMA, LF>> \o Rep(Fill, FoldedLen) >>

PrefValues == << T("1"), T("100"), T("0"), T("101"), T("-1"), T("abc"), T("1.5") >>

\* The properties the lists are made of, in a fixed order
PropertyPool ==
  << FNProperty(TextValues[1]), FNProperty(TextValues[3]) >>
  \o [k \in 1..Len(TextValues) |-> NoteProperty(TextValues[k], NoParams)]
  \o [k \in 1..Len(PrefValues) |->
        NoteProperty(T("n"), <<[name |-> PREF, list |-> FALSE, vals |-> <<PrefValues[k]>>]>>)]
  \o << NoteProperty(T("n"), <<[name |-> PREF, list |-> TRUE, vals |-> <<T("1"), T("200")>>]>>),
        GenderProperty(T("M")), GenderProperty(T("X")), GenderProperty(<<>>),
        RevProperty(SomeDate), RevProperty(InvalidDate) >>

InitGen ==
  /\ pc = "input"
  /\ \E picks \in SeqsUpTo(1..Len(PropertyPool), MaxProps), validate \in BOOLEAN :
       arg = [properties |-> [k \in 1..Len(picks) |-> PropertyPool[picks[k]]],
              validate |-> validate]
  /\ ret = NONE
  /\ ret2 = NONE
  /\ NoLocals
  /\ NoAssembler

SerializeVCard ==
  /\ pc = "input"
  /\ ret' = serializeVCard(arg.properties, arg.validate)
  /\ pc' = "generated"
  /\ UNCHANGED <<arg, ret2, locals, assembler>>

ParseGenerated ==
  /\ pc = "generated"
  /\ ~ret.threw
  /\ ret2' = parseVCardText(ret.output)
  /\ pc' = "reparsed"
  /\ UNCHANGED <<arg, ret, locals, assembler>>

NextGen == SerializeVCard \/ ParseGenerated

SpecGen == InitGen /\ [][NextGen]_vars

\* The entries of the PREF parameter of a property (none or one)
PrefEntries(p) == SelectSeq(p.params, LAMBDA entry : entry.name = PREF)

\* v is the decimal text of an integer
IsIntegerText(v) ==
  LET body == IF Len(v) >= 1 /\ v[1] = HYPHEN THEN Tail(v) ELSE v
  IN  Len(body) >= 1 /\ \A i \in 1..Len(body) : isDigit(body[i])

IntegerOf(v) == IF v[1] = HYPHEN THEN 0 - decimal(Tail(v)) ELSE decimal(v)

\* The PREF of p is a number outside 1 .. 100
PrefOutOfRange(p) ==
  \E k \in 1..Len(PrefEntries(p)) :
    LET entry == PrefEntries(p)[k]
    IN  /\ ~entry.list
        /\ IsIntegerText(entry.vals[1])
        /\ (IntegerOf(entry.vals[1]) < 1 \/ IntegerOf(entry.vals[1]) > 100)

\* The names a VCardError may carry for the property list ps
OffendingNames(ps) ==
  (IF \A k \in 1..Len(ps) : ps[k].name # T("FN") THEN {T("FN")} ELSE {})
  \cup {ps[k].name : k \in {j \in 1..Len(ps) : PrefOutOfRange(ps[j])}}
  \cup {ps[k].name : k \in {j \in 1..Len(ps) :
          /\ ps[j].class = "GenderProperty"
          /\ ps[j].value.sex \notin {T("M"), T("F"), T("O"), T("N"), T("U"), <<>>}}}
  \cup {ps[k].name : k \in {j \in 1..Len(ps) :
          ps[j].class = "RevProperty" /\ ps[j].value.isDate /\ ps[j].value.date = InvalidDate}}

C15_EmittedPrefInRange ==
  (pc = "generated" /\ arg.validate /\ ~ret.threw) =>
     \A k \in 1..Len(arg.properties) :
       \A e \in 1..Len(PrefEntries(arg.properties[k])) :
         LET entry == PrefEntries(arg.properties[k])[e]
         IN  /\ ~entry.list
             /\ IsIntegerText(entry.vals[1])
             /\ IntegerOf(entry.vals[1]) >= 1
             /\ IntegerOf(entry.vals[1]) <= 100

\* C16: in every output of serializeVCard each LF directly follows a CR and
\* each CR is directly followed by an LF.
C16_OnlyCRLF ==
  (pc = "generated" /\ ~ret.threw) =>
     \A i \in 1..Len(ret.output) :
       /\ ret.output[i] = LF => (i > 1 /\ ret.output[i - 1] = CR)
       /\ ret.output[i] = CR => (i < Len(ret.output) /\ ret.output[i + 1] = LF)

\* C17: parsing the text generated for a list of FN and NOTE properties
\* gives one card that holds, for each property of the list, a property of
\* that name with exactly that value.
C17_TextValueRoundTrip ==
  (pc = "reparsed" /\ \A k \in 1..Len(arg.properties) :
                         arg.properties[k].class = "TextProperty"
                         /\ arg.properties[k].params = NoParams) =>
     /\ Len(ret2.rawVCards) = 1
     /\ Len(ret2.rawVCards[1].properties) = Len(arg.properties)
     /\ \A k \in 1..Len(arg.properties) :
          \E j \in 1..Len(ret2.rawVCards[1].properties) :
            /\ ret2.rawVCards[1].properties[j].name = arg.properties[k].name
            /\ ret2.rawVCards[1].properties[j].value = arg.properties[k].value

---------------------------------------------------------------------------
(* SpecLine: parseContentLine applied to a well-formed content line, the    *)
(* line rebuilt from the group, name, parameters and value it returned      *)

MaxLineParams == 2

\* Parameters of the form PARAM=value[,value2], some values quoted
LineParams ==
  { T("TYPE=work"), T("TYPE=work,voice"), T("PREF=1"), T("X=\"a;b\""),
    T("LABEL=\"a:b\"") }

LineNames == { T("TEL"), T("item1.TEL"), T("X-A") }

LineValues == { T("+1 555"), T("a:b;c") }

\* Parameter lists in which no parameter name occurs twice
LineParamLists ==
  { ps \in SeqsUpTo(LineParams, MaxLineParams) :
      \A i, j \in 1..Len(ps) : partName(ps[i]) = partName(ps[j]) => i = j }

LineInputs ==
  { Join(<<name>> \o params, <<SEMI>>) \o <<COLON>> \o value :
      name \in LineNames, params \in LineParamLists, value \in LineValues }

InitLine ==
  /\ pc = "input"
  /\ arg \in LineInputs
  /\ ret = NONE
  /\ ret2 = NONE
  /\ NoLocals
  /\ NoAssembler

ParseContentLine ==
  /\ pc = "input"
  /\ ret' = parseContentLine(arg, <<>>)
  /\ pc' = "tokenized"
  /\ UNCHANGED <<arg, ret2, locals, assembler>>

\* The line of serializeProperty for the RawProperty, its value verbatim
Reserialize ==
  /\ pc = "tokenized"
  /\ ~ret.raw.isNull
  /\ ret2' = contentLine(ret.raw.group, ret.raw.name, ret.raw.parameters, ret.raw.value)
  /\ pc' = "reserialized"
  /\ UNCHANGED <<arg, ret, locals, assembler>>

NextLine == ParseContentLine \/ Reserialize

SpecLine == InitLine /\ [][NextLine]_vars

\* C18: tokenizing a well-formed content line [group.]NAME[;PARAM=value
\* [,value2]...]:value with parseContentLine and re-serializing the group,
\* name, parameters and value gives back the line, unit for unit.
C18_TokenizeSerializeIdentity ==
  pc = "reserialized" => ret2 = arg

---------------------------------------------------------------------------
(* SpecQuote: serializeParameters applied to a ParameterSet of scalar       *)
(* values, parseParameters applied to the result                            *)

MaxValue == 3

QuoteAlphabet == {SEMI, COLON, COMMA, QUOTE, BACKSLASH, Fill}

QuoteValues == SeqsUpTo(QuoteAlphabet, MaxValue)

\* One entry X, or the entries X and Y, Y with a value of at most one
\* character
QuoteInputs ==
  { << [name |-> T("X"), list |-> FALSE, vals |-> <<v>>] >> : v \in QuoteValues }
  \cup { << [name |-> T("X"), list |-> FALSE, vals |-> <<v>>],
            [name |-> T("Y"), list |-> FALSE, vals |-> <<w>>] >> :
           v \in QuoteValues, w \in SeqsUpTo(QuoteAlphabet, 1) }

InitQuote ==
  /\ pc = "input"
  /\ arg \in QuoteInputs
  /\ ret = NONE
  /\ ret2 = NONE
  /\ NoLocals
  /\ NoAssembler

SerializeParameters ==
  /\ pc = "input"
  /\ ret' = serializeParameters(arg)
  /\ pc' = "serialized"
  /\ UNCHANGED <<arg, ret2, locals, assembler>>

ParseSerialized ==
  /\ pc = "serialized"
  /\ ret2' = parseParameters(ret, <<>>).map
  /\ pc' = "parsedBack"
  /\ UNCHANGED <<arg, ret, locals, assembler>>

NextQuote == SerializeParameters \/ ParseSerialized

SpecQuote == InitQuote /\ [][NextQuote]_vars

\* C19: for every ParameterSet P with upper-case names and scalar values,
\* parseParameters(serializeParameters(P)) is P.
C19_ParametersRoundTrip ==
  pc = "parsedBack" => ret2 = arg

---------------------------------------------------------------------------
(* SpecSplit: parseContentLine applied to lines with colons and double      *)
(* quotes in every position                                                 *)

MaxSplit == 4

SplitHeads == { <<>>, T("A"), T("A;X=") }

SplitAlphabet == {QUOTE, COLON, SP, Fill}

SplitTails == { <<>>, T(":b:c"), T(": b ") }

\* A name (or none) and the start of a parameter, up to MaxSplit quotes,
\* colons and other characters, and a tail with further colons
SplitInputs ==
  { head \o mid \o tail :
      head \in SplitHeads, mid \in SeqsUpTo(SplitAlphabet, MaxSplit),
      tail \in SplitTails }

InitSplit ==
  /\ pc = "input"
  /\ arg \in SplitInputs
  /\ ret = NONE
  /\ ret2 = NONE
  /\ NoLocals
  /\ NoAssembler

\* parseContentLine on a line of SplitInputs
SplitContentLine ==
  /\ pc = "input"
  /\ ret' = parseContentLine(arg, <<>>)
  /\ pc' = "split"
  /\ UNCHANGED <<arg, ret2, locals, assembler>>

NextSplit == SplitContentLine

SpecSplit == InitSplit /\ [][NextSplit]_vars

\* The number of double quotes before index i of s is even
OutsideQuotes(s, i) ==
  Cardinality({j \in 1..(i - 1) : s[j] = QUOTE}) % 2 = 0

\* The colons of s that lie outside double-quoted text
FreeColons(s) == {i \in 1..Len(s) : s[i] = COLON /\ OutsideQuotes(s, i)}

---------------------------------------------------------------------------
(* SpecFrame: serializeVCard applied to lists that hold VERSION properties  *)
(* and values that mention VERSION                                          *)

VersionLine == T("VERSION:4.0")

\* new UnknownProperty('VERSION', '3.0'), new TextProperty('version', '2.1'),
\* notes whose text holds a line break before VERSION:4.0, a URL with a
\* line break in its raw value, and a GENDER that does not validate
FramePool ==
  << FNProperty(T("A")),
     Property("UnknownProperty", VERSION, T("3.0"), NoParams, NoString),
     Property("TextProperty", T("version"), T("2.1"), NoParams, Str(T("item1"))),
     NoteProperty(T("a") \o <<LF>> \o VersionLine, NoParams),
     NoteProperty(T("a") \o <<CR>> \o VersionLine, NoParams),
     NoteProperty(Rep(Fill, MAX_LINE_OCTETS - 5) \o VersionLine, NoParams),
     Property("UriProperty", T("URL"), T("x") \o CRLF \o VersionLine, NoParams, NoString),
     GenderProperty(T("X")) >>

InitFrame ==
  /\ pc = "input"
  /\ \E picks \in SeqsUpTo(1..Len(FramePool), MaxProps), validate \in BOOLEAN :
       arg = [properties |-> [k \in 1..Len(picks) |-> FramePool[picks[k]]],
              validate |-> validate]
  /\ ret = NONE
  /\ ret2 = NONE
  /\ NoLocals
  /\ NoAssembler

NextFrame == SerializeVCard

SpecFrame == InitFrame /\ [][NextFrame]_vars

\* The lines of an output as a reader of the format sees them
OutputLines(out) == unfoldLines(out)

\* C22: for every property list on which serializeVCard succeeds, the output
\* starts with the line BEGIN:VCARD immediately followed by the line
\* VERSION:4.0, ends with the line END:VCARD, and holds exactly one VERSION
\* line, also when the list itself holds VERSION properties.
C22_FramedWithOneVersion ==
  (pc = "generated" /\ ~ret.threw) =>
    LET ls == OutputLines(ret.output)
    IN  /\ startsWith(ret.output, BEGIN_VCARD \o CRLF \o VersionLine \o CRLF)
        /\ Len(ls) >= 3
        /\ ls[1] = BEGIN_VCARD
        /\ ls[2] = VersionLine
        /\ ls[Len(ls)] = END_VCARD
        /\ Cardinality({k \in 1..Len(ls) : IsVersionLine(ls[k])}) = 1

---------------------------------------------------------------------------
(* Quoted-printable decoding (generator.ts)                                 *)

\* U+FFFD, which the UTF-8 decoder puts in place of an invalid sequence
REPLACEMENT == MaxBMP - 2

keptSoftBreaks(s) == s

\* encoded.replace(/=\r?\n/g, ''): a match starts with '=', so two matches
\* never overlap; the replacement deletes every '=' that LF or CR LF follows,
\* and that line break.
removeSoftBreaks(s) ==
  LET lfAt(i) == i >= 1 /\ i <= Len(s) /\ s[i] = LF
      crlfAt(i) == i >= 1 /\ i + 1 <= Len(s) /\ s[i] = CR /\ s[i + 1] = LF
      softAt(i) == i >= 1 /\ i <= Len(s) /\ s[i] = EQUALS /\ (lfAt(i + 1) \/ crlfAt(i + 1))
  IN  deleteAt(s, {i \in 1..Len(s) :
        \/ softAt(i)
        \/ s[i] = LF /\ softAt(i - 1)
        \/ crlfAt(i) /\ softAt(i - 1)
        \/ s[i] = LF /\ crlfAt(i - 1) /\ softAt(i - 2)})

\* /^[0-9A-Fa-f]$/ on one code unit
isHexDigit(c) ==
  \/ isDigit(c)
  \/ c >= UpperA /\ c <= UpperA + 5
  \/ c >= LowerA /\ c <= LowerA + 5

\* parseInt(hex, 16) for one hex digit
hexDigit(c) ==
  IF isDigit(c) THEN c - Digit0
  ELSE IF c >= LowerA THEN c - LowerA + 10
  ELSE c - UpperA + 10

\* Buffer.from(ch, 'utf8') for one UTF-16 code unit: a surrogate on its own
\* encodes as U+FFFD
unitOctets(u) ==
  IF u <= Max1Byte THEN <<u>>
  ELSE IF u <= Max2Byte THEN <<192 + (u \div 64), 128 + (u % 64)>>
  ELSE IF IsHighSurrogate(u) \/ IsLowSurrogate(u) THEN <<239, 191, 189>>
  ELSE <<224 + (u \div 4096), 128 + ((u \div 64) % 64), 128 + (u % 64)>>

\* The while loop of decodeQuotedPrintable from index i (from 1) on: the
\* list `bytes`
RECURSIVE collectOctets(_, _)
collectOctets(s, i) ==
  IF i > Len(s) THEN <<>>
  ELSE IF s[i] = EQUALS /\ i + 2 <= Len(s) /\ isHexDigit(s[i + 1]) /\ isHexDigit(s[i + 2])
  THEN <<16 * hexDigit(s[i + 1]) + hexDigit(s[i + 2])>> \o collectOctets(s, i + 3)
  ELSE unitOctets(s[i]) \o collectOctets(s, i + 1)

\* b is a continuation octet within lo .. hi
inRange(bytes, i, lo, hi) == i <= Len(bytes) /\ bytes[i] >= lo /\ bytes[i] <= hi

\* The UTF-16 code units of a code point
unitsOf(cp) ==
  IF cp <= MaxBMP THEN <<cp>>
  ELSE <<SurrogateBase + ((cp - (MaxBMP + 1)) \div 1024),
         SurrogateBase + 1024 + ((cp - (MaxBMP + 1)) % 1024)>>

\* Buffer.prototype.toString('utf8') from index i (from 1) on: every maximal
\* invalid part of the octets becomes one U+FFFD
RECURSIVE utf8Decode(_, _)
utf8Decode(bytes, i) ==
  IF i > Len(bytes) THEN <<>>
  ELSE LET b == bytes[i]
           lo2 == IF b = 224 THEN 160 ELSE IF b = 240 THEN 144 ELSE 128
           hi2 == IF b = 237 THEN 159 ELSE IF b = 244 THEN 143 ELSE 191
       IN  IF b <= Max1Byte THEN <<b>> \o utf8Decode(bytes, i + 1)
           ELSE IF b >= 194 /\ b <= 223
           THEN IF inRange(bytes, i + 1, 128, 191)
                THEN <<(b - 192) * 64 + (bytes[i + 1] - 128)>> \o utf8Decode(bytes, i + 2)
                ELSE <<REPLACEMENT>> \o utf8Decode(bytes, i + 1)
           ELSE IF b >= 224 /\ b <= 239
           THEN IF ~inRange(bytes, i + 1, lo2, hi2)
                THEN <<REPLACEMENT>> \o utf8Decode(bytes, i + 1)
                ELSE IF ~inRange(bytes, i + 2, 128, 191)
                THEN <<REPLACEMENT>> \o utf8Decode(bytes, i + 2)
                ELSE <<(b - 224) * 4096 + (bytes[i + 1] - 128) * 64 + (bytes[i + 2] - 128)>>
                     \o utf8Decode(bytes, i + 3)
           ELSE IF b >= 240 /\ b <= 244
           THEN IF ~inRange(bytes, i + 1, lo2, hi2)
                THEN <<REPLACEMENT>> \o utf8Decode(bytes, i + 1)
                ELSE IF ~inRange(bytes, i + 2, 128, 191)
                THEN <<REPLACEMENT>> \o utf8Decode(bytes, i + 2)
                ELSE IF ~inRange(bytes, i + 3, 128, 191)
                THEN <<REPLACEMENT>> \o utf8Decode(bytes, i + 3)
                ELSE unitsOf((b - 240) * 262144 + (bytes[i + 1] - 128) * 4096
                             + (bytes[i + 2] - 128) * 64 + (bytes[i + 3] - 128))
                     \o utf8Decode(bytes, i + 4)
           ELSE <<REPLACEMENT>> \o utf8Decode(bytes, i + 1)

decodeQuotedPrintable(encoded) ==
  utf8Decode(collectOctets(removeSoftBreaks(encoded), 1), 1)

---------------------------------------------------------------------------
(* SpecQP: decodeQuotedPrintable applied to an encoded text                 *)

MaxTokens == 3

\* Encoded octets of a two-byte and of a three-byte character (upper and
\* lower case hex), an '=' on its own, soft line breaks with LF and CR LF, an
\* '=' before a lone CR, hex digits, a letter that is no hex digit, a bare
\* LF and a character above the ASCII range
QPTokens ==
  { T("=C3"), T("=A4"), T("=e2"), T("=82"), T("=AC"), T("="),
    <<EQUALS, LF>>, <<EQUALS, CR, LF>>, <<EQUALS, CR>>,
    T("4"), T("1"), T("G"), <<LF>>, <<Max1Byte + 101>> }

QPInputs ==
  { Join(ts, <<>>) : ts \in SeqsUpTo(QPTokens, MaxTokens) } \cup { T("Fr=C3=A4nk") }

InitQP ==
  /\ pc = "input"
  /\ arg \in QPInputs
  /\ ret = NONE
  /\ ret2 = NONE
  /\ NoLocals
  /\ NoAssembler

DecodeQuotedPrintable ==
  /\ pc = "input"
  /\ ret' = decodeQuotedPrintable(arg)
  /\ pc' = "decoded"
  /\ UNCHANGED <<arg, ret2, locals, assembler>>

NextQP == DecodeQuotedPrintable

SpecQP == InitQP /\ [][NextQP]_vars

IsAscii(s) == \A i \in 1..Len(s) : s[i] <= Max1Byte

\* s without its soft line breaks, read from index i on; loneCR tells whether
\* an '=' before a CR that no LF follows is a soft line break as well
RECURSIVE WithoutSoftBreaks(_, _, _)
WithoutSoftBreaks(s, i, loneCR) ==
  IF i > Len(s) THEN <<>>
  ELSE IF s[i] = EQUALS /\ i + 2 <= Len(s) /\ s[i + 1] = CR /\ s[i + 2] = LF
  THEN WithoutSoftBreaks(s, i + 3, loneCR)
  ELSE IF s[i] = EQUALS /\ i + 1 <= Len(s) /\ (s[i + 1] = LF \/ (loneCR /\ s[i + 1] = CR))
  THEN WithoutSoftBreaks(s, i + 2, loneCR)
  ELSE <<s[i]>> \o WithoutSoftBreaks(s, i + 1, loneCR)

HexDigits == T("0123456789ABCDEF")

HexLower == T("0123456789abcdef")

\* The value of the hex digit c
HexValue(c) ==
  (CHOOSE k \in 1..16 : HexDigits[k] = c \/ HexLower[k] = c) - 1

IsHex(c) == \E k \in 1..16 : HexDigits[k] = c \/ HexLower[k] = c

\* An '=XX' triplet starts at index i of r
TripletAt(r, i) ==
  i >= 1 /\ i + 2 <= Len(r) /\ r[i] = EQUALS /\ IsHex(r[i + 1]) /\ IsHex(r[i + 2])

\* The octets of an ASCII text r without soft line breaks: the octet XX of
\* every triplet and the byte of every character outside the triplets
ExpectedOctets(r) ==
  LET heads == SelectSeq([i \in 1..Len(r) |-> i],
                 LAMBDA i : ~TripletAt(r, i - 1) /\ ~TripletAt(r, i - 2))
  IN  [k \in 1..Len(heads) |->
         IF TripletAt(r, heads[k])
         THEN 16 * HexValue(r[heads[k] + 1]) + HexValue(r[heads[k] + 2])
         ELSE r[heads[k]]]

\* C23 as stated, a line break being CR LF, LF or a lone CR: the output is
\* the UTF-8 reading of the octets of the text without its soft line breaks.
C23_Original ==
  (pc = "decoded" /\ IsAscii(arg)) =>
    ret = utf8Decode(ExpectedOctets(WithoutSoftBreaks(arg, 1, TRUE)), 1)

\* C23 (amended): decodeQuotedPrintable first removes every soft line break,
\* which is an '=' directly followed by LF or by CR LF (an '=' before a lone
\* CR is no soft line break and stays); in what remains every '=XX' with two
\* hex digits becomes the octet XX and every other ASCII character (an '='
\* not followed by two hex digits included) its own byte, in order; the
\* octets are decoded as UTF-8 once at the end, so Fr=C3=A4nk gives the five
\* characters F, r, U+00E4, n, k, and octets below 128 give themselves.
C23_DecodesTripletsAfterSoftBreaks ==
  (pc = "decoded" /\ IsAscii(arg)) =>
    LET octets == ExpectedOctets(WithoutSoftBreaks(arg, 1, FALSE))
    IN  /\ ret = utf8Decode(octets, 1)
        /\ IsAscii(octets) => ret = octets
        /\ arg = T("Fr=C3=A4nk") => ret = T("Fr") \o <<Max1Byte + 101>> \o T("nk")

\* The two octets of U+00E4 with a soft line break between their triplets
\* were put together into the one character.
C23_Witness ==
  /\ pc = "decoded"
  /\ arg = T("=C3") \o <<EQUALS, CR, LF>> \o T("=A4")
  /\ ret = <<Max1Byte + 101>>

---------------------------------------------------------------------------
(* SpecList: parseStructuredList applied to a structured value              *)

\* The example of the README (edgecases.test.ts:2442)
ReadmeName == T("Smith;Simon;;;ing. jr,M.Sc.")

ListAlphabet == {SEMI, COMMA, BACKSLASH, Fill}

ListInputs == SeqsUpTo(ListAlphabet, MaxText) \cup {ReadmeName}

InitList ==
  /\ pc = "input"
  /\ arg \in ListInputs
  /\ ret = NONE
  /\ ret2 = NONE
  /\ NoLocals
  /\ NoAssembler

ParseStructuredList ==
  /\ pc = "input"
  /\ ret' = parseStructuredList(arg)
  /\ pc' = "listed"
  /\ UNCHANGED <<arg, ret2, locals, assembler>>

NextList == ParseStructuredList

SpecList == InitList /\ [][NextList]_vars

\* C24: parseStructuredList returns one list per semicolon-separated
\* component, and an empty component yields the empty list; for
\* 'Smith;Simon;;;ing. jr,M.Sc.' the result is
\* [['Smith'], ['Simon'], [], [], ['ing. jr', 'M.Sc.']].
C24_EmptyComponentEmptyList ==
  pc = "listed" =>
    /\ Len(ret) = Len(splitStructured(arg))
    /\ \A k \in 1..Len(ret) : splitStructured(arg)[k] = <<>> => ret[k] = <<>>
    /\ arg = ReadmeName =>
         ret = << <<T("Smith")>>, <<T("Simon")>>, <<>>, <<>>,
                  <<T("ing. jr"), T("M.Sc.")>> >>

---------------------------------------------------------------------------
(* SpecNumbering: parseVCardText applied to inputs with blank lines and     *)
(* folded lines before the markers                                          *)

\* An empty line, the markers, a content line and a continuation line
NumberingLines == { <<>>, BEGIN_VCARD, END_VCARD, T("FN:A"), T(" B") }

NumberingInputs ==
  { Join(ls, CRLF) : ls \in SeqsUpTo(NumberingLines, MaxLines) }

InitNumbering ==
  /\ pc = "input"
  /\ arg \in NumberingInputs
  /\ ret = NONE
  /\ ret2 = NONE
  /\ NoLocals
  /\ NoAssembler

SpecNumbering == InitNumbering /\ [][NextParse]_vars

\* The lines of the input text as written, blank lines and continuation
\* lines included; line n of the input is InputLines(input)[n]
InputLines(input) == splitOn(replaceCR(replaceCRLF(input)), LF)

\* C25: when a Warning carries a line, that line is the 1-based number of
\* the offending line in the input text: the warning for a stray END:VCARD
\* reports the input line on which that END:VCARD stands, also when blank
\* lines or folded continuation lines precede it.
C25_WarningLineIsInputLine ==
  pc = "parsed" =>
    \A k \in 1..Len(ret.warnings) :
      "line" \in DOMAIN ret.warnings[k] =>
        /\ ret.warnings[k].line \in 1..Len(InputLines(arg))
        /\ markerText(InputLines(arg)[ret.warnings[k].line]) = END_VCARD

---------------------------------------------------------------------------
(* SpecCalls: parseVCardText and serializeVCard calls in progress at the    *)
(* same time, their steps interleaved                                       *)

NumCalls == 2

Calls == 1..NumCalls

sharedFrame(c) == 1

\* The local variables of call c: warnings, rawVCards, lines, inVCard,
\* currentLines and i of parseVCardText (generator.ts:716-723), ordered and
\* output of serializeVCard (generator.ts:139-144) are declared inside the
\* function body, so every call has a set of its own
frame(c) == c

\* The local variables before a call has assigned them
NoFrame ==
  [warnings |-> <<>>, rawVCards |-> <<>>, lines |-> <<>>, i |-> 0,
   inVCard |-> FALSE, currentLines |-> <<>>, ordered |-> <<>>, output |-> <<>>]

\* One pass of the for loop of parseVCardText on the local variables f
parsePass(f) ==
  LET line == f.lines[f.i]
      upper == markerText(line)
      push(card) ==
        [f EXCEPT !.inVCard = FALSE,
                  !.rawVCards = Append(@, card),
                  !.warnings = @ \o card.warnings,
                  !.currentLines = <<>>,
                  !.i = @ + 1]
  IN  IF upper = BEGIN_VCARD
      THEN [f EXCEPT !.inVCard = TRUE, !.currentLines = resetOnBegin(@), !.i = @ + 1]
      ELSE IF upper = END_VCARD
      THEN IF ~f.inVCard
           THEN [f EXCEPT !.warnings = unexpectedEnd(@, f.i - 1), !.i = @ + 1]
           ELSE push(parseVCardBlock(f.currentLines, <<>>))
      ELSE [f EXCEPT !.currentLines = IF f.inVCard THEN Append(@, line) ELSE @,
                     !.i = @ + 1]

\* What parseVCardText returns once the loop has ended on f
parseResult(f) ==
  IF f.inVCard
  THEN pushCard([rawVCards |-> f.rawVCards, warnings |-> f.warnings],
                parseVCardBlock(f.currentLines, UnclosedWarnings))
  ELSE [rawVCards |-> f.rawVCards, warnings |-> f.warnings]

\* The inputs of the calls: texts with a closed block, a stray END:VCARD and
\* an unclosed block with a line that has no colon; a list that serializes
\* and a list that does not validate
CallInputs ==
  << [kind |-> "parse", input |-> Join(<<BEGIN_VCARD, T("FN:A"), END_VCARD>>, CRLF)],
     [kind |-> "parse", input |-> Join(<<END_VCARD, T("FN:A")>>, CRLF)],
     [kind |-> "parse", input |-> Join(<<BEGIN_VCARD, T("NOTE")>>, CRLF)],
     [kind |-> "serialize",
      properties |-> <<NoteProperty(T("n"), NoParams), FNProperty(T("A"))>>],
     [kind |-> "serialize", properties |-> <<GenderProperty(T("X"))>>] >>

InitCalls ==
  /\ pc = [c \in Calls |-> "start"]
  /\ \E picks \in [Calls -> 1..Len(CallInputs)] :
       arg = [c \in Calls |-> CallInputs[picks[c]]]
  /\ ret = [c \in Calls |-> NONE]
  /\ ret2 = NONE
  /\ NoLocals
  /\ lines = <<>>
  /\ lineIdx = 0
  /\ inVCard = FALSE
  /\ currentLines = <<>>
  /\ rawVCards = <<>>
  /\ frames = [c \in Calls |-> NoFrame]

single == <<ret2, locals, lines, lineIdx, inVCard, currentLines, rawVCards>>

\* parseVCardText, call c: the declarations before the loop
CallParseBegin(c) ==
  /\ pc[c] = "start"
  /\ arg[c].kind = "parse"
  /\ frames' = [frames EXCEPT ![frame(c)] =
                  [NoFrame EXCEPT !.lines = unfoldLines(arg[c].input), !.i = 1]]
  /\ pc' = [pc EXCEPT ![c] = "loop"]
  /\ UNCHANGED <<arg, ret, single>>

\* parseVCardText, call c: one pass of the for loop
CallParsePass(c) ==
  /\ pc[c] = "loop"
  /\ arg[c].kind = "parse"
  /\ frames[frame(c)].i >= 1
  /\ frames[frame(c)].i <= Len(frames[frame(c)].lines)
  /\ frames' = [frames EXCEPT ![frame(c)] = parsePass(@)]
  /\ UNCHANGED <<pc, arg, ret, single>>

\* parseVCardText, call c: after the loop
CallParseReturn(c) ==
  /\ pc[c] = "loop"
  /\ arg[c].kind = "parse"
  /\ frames[frame(c)].i > Len(frames[frame(c)].lines)
  /\ ret' = [ret EXCEPT ![c] = parseResult(frames[frame(c)])]
  /\ pc' = [pc EXCEPT ![c] = "done"]
  /\ UNCHANGED <<arg, frames, single>>

\* serializeVCard, call c: validation, the two fixed lines and the ordering
CallSerializeBegin(c) ==
  /\ pc[c] = "start"
  /\ arg[c].kind = "serialize"
  /\ IF validateForGeneration(arg[c].properties).threw
     THEN /\ ret' = [ret EXCEPT ![c] =
                       [threw |-> TRUE,
                        property |-> validateForGeneration(arg[c].properties).property,
                        output |-> NONE]]
          /\ pc' = [pc EXCEPT ![c] = "done"]
          /\ UNCHANGED frames
     ELSE /\ frames' = [frames EXCEPT ![frame(c)] =
                  [NoFrame EXCEPT
                     !.output = BEGIN_VCARD \o CRLF \o VersionLine \o CRLF,
                     !.ordered = orderProperties(
                        SelectSeq(arg[c].properties, LAMBDA p : p.name # VERSION)),
                     !.i = 1]]
          /\ pc' = [pc EXCEPT ![c] = "loop"]
          /\ UNCHANGED ret
  /\ UNCHANGED <<arg, single>>

\* serializeVCard, call c: one pass of the for loop over the ordered list
CallSerializePass(c) ==
  /\ pc[c] = "loop"
  /\ arg[c].kind = "serialize"
  /\ frames[frame(c)].i >= 1
  /\ frames[frame(c)].i <= Len(frames[frame(c)].ordered)
  /\ frames' = [frames EXCEPT ![frame(c)] =
                  [@ EXCEPT !.output = @ \o serializeProperty(
                                         frames[frame(c)].ordered[frames[frame(c)].i]),
                            !.i = @ + 1]]
  /\ UNCHANGED <<pc, arg, ret, single>>

\* serializeVCard, call c: the END:VCARD line and the return
CallSerializeReturn(c) ==
  /\ pc[c] = "loop"
  /\ arg[c].kind = "serialize"
  /\ frames[frame(c)].i > Len(frames[frame(c)].ordered)
  /\ ret' = [ret EXCEPT ![c] =
               [threw |-> FALSE, property |-> <<>>,
                output |-> frames[frame(c)].output \o END_VCARD \o CRLF]]
  /\ pc' = [pc EXCEPT ![c] = "done"]
  /\ UNCHANGED <<arg, frames, single>>

NextCalls ==
  \E c \in Calls :
    \/ CallParseBegin(c)
    \/ CallParsePass(c)
    \/ CallParseReturn(c)
    \/ CallSerializeBegin(c)
    \/ CallSerializePass(c)
    \/ CallSerializeReturn(c)

SpecCalls == InitCalls /\ [][NextCalls]_vars


\* What call c returns when it runs alone
AloneResult(c) ==
  IF arg[c].kind = "parse" THEN parseVCardText(arg[c].input)
  ELSE serializeVCard(arg[c].properties, TRUE)

\* What call c, in its loop with the local variables f, returns when it runs
\* on alone from there
ResultFrom(c, f) ==
  IF arg[c].kind = "parse"
  THEN parseVCardTextFrom(f.lines, f.i, f.inVCard, f.currentLines,
                          [rawVCards |-> f.rawVCards, warnings |-> f.warnings])
  ELSE [threw |-> FALSE, property |-> <<>>,
        output |-> f.output
                   \o Join([k \in 1..(Len(f.ordered) - f.i + 1) |->
                              serializeProperty(f.ordered[f.i + k - 1])], <<>>)
                   \o END_VCARD \o CRLF]

\* C26: parse and generate calls share no mutable state.  Under every
\* interleaving of the steps of concurrent parseVCardText and serializeVCard
\* calls, each call returns the result and the warnings it returns when it
\* runs alone, and at every point of a call its block accumulation, its
\* warning list and its output are the ones of that call alone: what it
\* would return by running on alone is what it returns alone.
C26_CallsAreIsolated ==
  \A c \in Calls :
    /\ pc[c] = "done" => ret[c] = AloneResult(c)
    /\ pc[c] = "loop" =>
         /\ arg[c].kind = "parse" => frames[frame(c)].lines = unfoldLines(arg[c].input)
         /\ ResultFrom(c, frames[frame(c)]) = AloneResult(c)

\* A parseVCardText call that has accumulated a line of an open block while
\* a serializeVCard call has emitted its first property, and a finished
\* parse call next to a serialize call that is still in its loop.
C26_Witness ==
  /\ arg[1].kind = "parse"
  /\ arg[2].kind = "serialize"
  /\ pc[1] = "loop"
  /\ pc[2] = "loop"
  /\ frames[frame(1)].inVCard
  /\ frames[frame(1)].currentLines # <<>>
  /\ frames[frame(2)].i = 2
  /\ Len(frames[frame(2)].output) > Len(BEGIN_VCARD \o CRLF \o VersionLine \o CRLF)

---------------------------------------------------------------------------
(* SpecRound: a list of components escaped, joined and parsed back          *)

\* parts.map(escapeStructuredComponent).join(';') of OrgProperty.toContentLine
joinStructured(components) ==
  Join([k \in 1..Len(components) |-> escapeStructuredComponent(components[k])],
       <<SEMI>>)

\* values.map(v => escapeText(v)).join(',') of TextListProperty.toContentLine
joinList(values) ==
  Join([k \in 1..Len(values) |-> escapeText(values[k])], <<COMMA>>)

RoundAlphabet == {BACKSLASH, SEMI, COMMA, LF, LowerN, Fill}

\* Every non-empty list of components whose lengths and separators together
\* take at most MaxText places: a text over the alphabet and one more mark
\* (0, not in the alphabet), cut at the marks.
ComponentLists ==
  { splitOn(s, 0) : s \in SeqsUpTo(RoundAlphabet \cup {0}, MaxText) }

InitRound ==
  /\ pc = "input"
  /\ arg \in ComponentLists
  /\ ret = NONE
  /\ ret2 = NONE
  /\ NoLocals
  /\ NoAssembler

JoinStructured ==
  /\ pc = "input"
  /\ ret' = joinStructured(arg)
  /\ pc' = "structured"
  /\ UNCHANGED <<arg, ret2, locals, assembler>>

ParseStructured ==
  /\ pc = "structured"
  /\ ret2' = parseStructured(ret)
  /\ pc' = "parsedStructured"
  /\ UNCHANGED <<arg, ret, locals, assembler>>

JoinList ==
  /\ pc = "input"
  /\ ret' = joinList(arg)
  /\ pc' = "list"
  /\ UNCHANGED <<arg, ret2, locals, assembler>>

ParseList ==
  /\ pc = "list"
  /\ ret2' = parseList(ret)
  /\ pc' = "parsedList"
  /\ UNCHANGED <<arg, ret, locals, assembler>>

NextRound ==
  \/ JoinStructured
  \/ ParseStructured
  \/ JoinList
  \/ ParseList

SpecRound == InitRound /\ [][NextRound]_vars

\* C27: for every non-empty list of components, escaping each with
\* escapeStructuredComponent, joining with ';' and applying parseStructured
\* gives back the same list (same count, same contents), whatever backslashes,
\* semicolons, commas and newlines the components hold; likewise with
\* escapeText, ',' and parseList.
C27_ComponentsRoundTrip ==
  pc \in {"parsedStructured", "parsedList"} => ret2 = arg

\* Two components, the first ending in a backslash, the second holding the
\* separator: parsed back from "\;\;" as the same two components.
C27_Witness ==
  /\ pc = "parsedStructured"
  /\ arg = << <<BACKSLASH>>, <<SEMI>> >>
  /\ ret = <<BACKSLASH, BACKSLASH, SEMI, BACKSLASH, SEMI>>
  /\ ret2 = arg
  /\ Len(ret2) = 2

---------------------------------------------------------------------------
(* SpecSegments: the segment loop of foldLine, one pass at a time.  The     *)
(* call's locals parts, start and maxBytes are the one frame in `frames`.   *)

MaxBack == 5

LoneHigh == SurrogateBase
LoneLow == SurrogateBase + 1024

\* One pass of the outer while loop up to the slice: the index (from 1) of
\* the first code unit after the segment that starts at `start`
\* (generator.ts:37-52, with the forced advance of lines 49-52).
segmentEnd(line, start, maxBytes) ==
  LET scanned == scanSegment(line, start, 0, maxBytes)
  IN  IF scanned = start THEN start + 1 ELSE scanned

\* Code units of UTF-8 width 1 and 3 and the two halves of a surrogate pair
SegmentAlphabet == {Fill, Max2Byte + 1, LoneHigh, LoneLow}

\* Lines without CR or LF: ASCII letters up to a few octets before the end of
\* a segment's budget, up to MaxMid arbitrary code units, a short ASCII tail.
SegmentInputs ==
  { Rep(Fill, k * (MAX_LINE_OCTETS - 1) + 1 - back) \o mid \o Rep(Fill, t) :
      k \in 1..MaxFolds, back \in 0..MaxBack,
      mid \in SeqsUpTo(SegmentAlphabet, MaxMid), t \in 0..MaxTail }

InitSegments ==
  /\ pc = "input"
  /\ arg \in SegmentInputs
  /\ ret = NONE
  /\ ret2 = NONE
  /\ NoLocals
  /\ NoAssembler

\* generator.ts:26-34: the early return of a short line, or the declarations
FoldLineBegin ==
  /\ pc = "input"
  /\ IF byteLength(arg) <= MAX_LINE_OCTETS
     THEN /\ ret' = arg \o CRLF
          /\ pc' = "folded"
          /\ UNCHANGED frames
     ELSE /\ frames' = << [parts |-> <<>>, start |-> 1, maxBytes |-> MAX_LINE_OCTETS] >>
          /\ pc' = "segment"
          /\ UNCHANGED ret
  /\ UNCHANGED <<arg, ret2, locals, lines, lineIdx, inVCard, currentLines, rawVCards>>

\* generator.ts:36-57: one pass of while (start < line.length)
FoldLinePass ==
  /\ pc = "segment"
  /\ frames[1].start <= Len(arg)
  /\ LET f == frames[1]
         end == segmentEnd(arg, f.start, f.maxBytes)
     IN  frames' = << [parts |-> Append(f.parts, SubSeq(arg, f.start, end - 1)),
                       start |-> end,
                       maxBytes |-> contBudget] >>
  /\ UNCHANGED <<pc, arg, ret, ret2, locals, lines, lineIdx, inVCard, currentLines, rawVCards>>

\* generator.ts:59: the loop condition fails, the parts are joined
FoldLineReturn ==
  /\ pc = "segment"
  /\ frames[1].start > Len(arg)
  /\ ret' = Join(frames[1].parts, foldSeparator) \o CRLF
  /\ pc' = "folded"
  /\ UNCHANGED <<arg, ret2, frames, locals, lines, lineIdx, inVCard, currentLines, rawVCards>>

NextSegments ==
  \/ FoldLineBegin
  \/ FoldLinePass
  \/ FoldLineReturn

SpecSegments == InitSegments /\ [][NextSegments]_vars

\* The index i (from 1) of s is the low half of a surrogate pair: a cut just
\* before it would fall inside the pair.
InsidePair(s, i) ==
  /\ i > 1
  /\ i <= Len(s)
  /\ IsHighSurrogate(s[i - 1])
  /\ IsLowSurrogate(s[i])

\* The segments of a folded output: its physical lines, each continuation
\* line without the space that the separator put in front of it.
Segments(out) ==
  LET pl == PhysicalLines(out)
  IN  [k \in 1..Len(pl) |-> IF k = 1 THEN pl[k] ELSE Tail(pl[k])]

\* Index (from 1) in the input line of the first code unit of segment k + 1
CutAfter(segs, k) == 1 + Len(Join(SubSeq(segs, 1, k), <<>>))

\* C28: foldLine cuts a line only between code points (no segment boundary
\* falls inside a surrogate pair), and the emitted segments, concatenated in
\* order without the CRLF-space separators, give back the input line; the
\* same holds of the parts collected after every pass of the loop.
C28_CutsBetweenCodePoints ==
  /\ pc = "segment" =>
       /\ Join(frames[1].parts, <<>>) = SubSeq(arg, 1, frames[1].start - 1)
       /\ ~InsidePair(arg, frames[1].start)
  /\ pc = "folded" =>
       /\ Join(Segments(ret), <<>>) = arg
       /\ \A k \in 1..(Len(Segments(ret)) - 1) :
            ~InsidePair(arg, CutAfter(Segments(ret), k))
       /\ ret = foldLine(arg)

\* 71 letters, an astral character and a letter: the astral character,
\* counted once with width 4, fills the first line to 75 octets, and the cut
\* falls after its low half.
C28_Witness ==
  /\ pc = "folded"
  /\ arg = Rep(Fill, MAX_LINE_OCTETS - 4) \o <<LoneHigh, LoneLow, Fill>>
  /\ Segments(ret) = << Rep(Fill, MAX_LINE_OCTETS - 4) \o <<LoneHigh, LoneLow>>, <<Fill>> >>

---------------------------------------------------------------------------
(* LiveSegments: both loops of foldLine, one statement group at a time,     *)
(* under the fairness of a running call.  foldLine is synchronous code:     *)
(* once called, its next statement is always executed, so a step that is    *)
(* enabled is taken.  The frame holds parts, start, maxBytes, end and       *)
(* octetCount.                                                              *)

stalledEnd(start, end) == start

\* generator.ts:49-52: if (end === start) end = start + 1
forcedEnd(start, end) == IF end = start THEN start + 1 ELSE end

\* generator.ts:46: end += cp > 0xffff ? 2 : 1
advance(cp) == IF cp > MaxBMP THEN 2 ELSE 1

\* Lines of one to MaxFolds + 1 segments that end in nothing, in a 3-octet
\* character or in an astral character, 0..MaxBack octets before a budget
LiveInputs ==
  { Rep(Fill, k * (MAX_LINE_OCTETS - 1) + 1 - back) \o mid :
      k \in 1..MaxFolds, back \in 0..MaxBack,
      mid \in { <<>>, <<Max2Byte + 1>>, <<LoneHigh, LoneLow>> } }

InitLive ==
  /\ pc = "input"
  /\ arg \in LiveInputs
  /\ ret = NONE
  /\ ret2 = NONE
  /\ NoLocals
  /\ NoAssembler

single29 == <<arg, ret2, locals, lines, lineIdx, inVCard, currentLines, rawVCards>>

\* generator.ts:26-34
FoldEnter ==
  /\ pc = "input"
  /\ IF byteLength(arg) <= MAX_LINE_OCTETS
     THEN /\ ret' = arg \o CRLF
          /\ pc' = "folded"
          /\ UNCHANGED frames
     ELSE /\ frames' = << [parts |-> <<>>, start |-> 1, maxBytes |-> MAX_LINE_OCTETS,
                           end |-> 0, octetCount |-> 0] >>
          /\ pc' = "while"
          /\ UNCHANGED ret
  /\ UNCHANGED single29

\* generator.ts:36-38 and 59: the test of the outer loop
FoldWhile ==
  /\ pc = "while"
  /\ IF frames[1].start <= Len(arg)
     THEN /\ frames' = << [frames[1] EXCEPT !.end = frames[1].start, !.octetCount = 0] >>
          /\ pc' = "scan"
          /\ UNCHANGED ret
     ELSE /\ ret' = Join(frames[1].parts, foldSeparator) \o CRLF
          /\ pc' = "folded"
          /\ UNCHANGED frames
  /\ UNCHANGED single29

\* generator.ts:41-47: one pass of the inner loop
FoldScan ==
  /\ pc = "scan"
  /\ IF /\ frames[1].end <= Len(arg)
        /\ frames[1].octetCount + charBytes(codePointAt(arg, frames[1].end))
             <= frames[1].maxBytes
     THEN /\ frames' = << [frames[1] EXCEPT
                 !.octetCount = @ + charBytes(codePointAt(arg, frames[1].end)),
                 !.end = @ + advance(codePointAt(arg, frames[1].end))] >>
          /\ UNCHANGED pc
     ELSE /\ pc' = "slice"
          /\ UNCHANGED frames
  /\ UNCHANGED <<ret, single29>>

\* generator.ts:49-56
FoldSlice ==
  /\ pc = "slice"
  /\ frames' = << [frames[1] EXCEPT
         !.parts = Append(@, SubSeq(arg, frames[1].start,
                                    forcedEnd(frames[1].start, frames[1].end) - 1)),
         !.start = forcedEnd(frames[1].start, frames[1].end),
         !.maxBytes = contBudget] >>
  /\ pc' = "while"
  /\ UNCHANGED <<ret, single29>>

NextLive ==
  \/ FoldEnter
  \/ FoldWhile
  \/ FoldScan
  \/ FoldSlice

LiveSegments == InitLive /\ [][NextLive]_vars /\ WF_vars(NextLive)

\* A pass of the inner loop that does not leave it moves end forward; a pass
\* of the outer loop appends a segment of at least one code unit and moves
\* start forward by the length of that segment, never past the end of the
\* line.
PassConsumes ==
  /\ FoldScan /\ pc' = "scan" => frames'[1].end > frames[1].end
  /\ FoldSlice =>
       /\ frames'[1].start > frames[1].start
       /\ Len(frames'[1].parts) = Len(frames[1].parts) + 1
       /\ Len(frames'[1].parts[Len(frames'[1].parts)])
            = frames'[1].start - frames[1].start
       /\ frames'[1].start <= Len(arg) + 1

\* C29: foldLine terminates on every input: each pass of its segment loop
\* consumes at least one code unit of the line, so start strictly increases
\* until the line is exhausted and the call returns, and no emitted segment
\* is empty (no empty trailing continuation line).
C29_FoldLineTerminates ==
  /\ [][PassConsumes]_vars
  /\ <>(pc = "folded")
  /\ [](pc \in {"while", "scan", "slice"} =>
          \A k \in 1..Len(frames[1].parts) : frames[1].parts[k] # <<>>)
  /\ [](pc = "folded" =>
          /\ ret = foldLine(arg)
          /\ \A k \in 1..Len(Segments(ret)) : Segments(ret)[k] # <<>>)

\* A line of 75 + 74 letters and one 3-octet character whose loop ran three
\* passes and returned: the last segment is the one remaining character.
C29_Witness ==
  /\ pc = "folded"
  /\ Len(arg) = 2 * MAX_LINE_OCTETS
  /\ frames # <<>>
  /\ Len(frames[1].parts) = 3
  /\ frames[1].start = Len(arg) + 1
  /\ frames[1].parts[3] = <<Max2Byte + 1>>

---------------------------------------------------------------------------
(* SpecUnfold: unfoldLines applied to a text of line breaks and whitespace  *)

MaxUnfold == 5

UnfoldAlphabet == {CR, LF, SP, TAB, Fill}

\* "a " CRLF space tab "b" CR CR "c" LF
UnfoldSample ==
  T("a ") \o CRLF \o <<SP, TAB>> \o T("b") \o <<CR, CR>> \o T("c") \o <<LF>>

UnfoldInputs == SeqsUpTo(UnfoldAlphabet, MaxUnfold) \cup {UnfoldSample}

InitUnfold ==
  /\ pc = "input"
  /\ arg \in UnfoldInputs
  /\ ret = NONE
  /\ ret2 = NONE
  /\ NoLocals
  /\ NoAssembler

UnfoldInput ==
  /\ pc = "input"
  /\ ret' = unfoldLines(arg)
  /\ pc' = "lines"
  /\ UNCHANGED <<arg, ret2, locals, assembler>>

NextUnfold == UnfoldInput

SpecUnfold == InitUnfold /\ [][NextUnfold]_vars

\* Length of the line break that starts at index i of s (CRLF is one break
\* of two code units, a lone CR or LF one of one), 0 if none starts there
BreakAt(s, i) ==
  IF s[i] = CR /\ i + 1 <= Len(s) /\ s[i + 1] = LF THEN 2
  ELSE IF s[i] = CR \/ s[i] = LF THEN 1
  ELSE 0

\* The lines of s read from left to right: a break with a space or tab right
\* after it is skipped together with that one character, any other break
\* ends the current line, every other code unit is content; a line that
\* ends empty is not listed.
RECURSIVE LinesFrom(_, _, _)
LinesFrom(s, i, current) ==
  LET listed == IF current = <<>> THEN <<>> ELSE <<current>>
      b == IF i <= Len(s) THEN BreakAt(s, i) ELSE 0
  IN  IF i > Len(s) THEN listed
      ELSE IF b = 0 THEN LinesFrom(s, i + 1, Append(current, s[i]))
      ELSE IF i + b <= Len(s) /\ s[i + b] \in {SP, TAB}
           THEN LinesFrom(s, i + b + 1, current)
      ELSE listed \o LinesFrom(s, i + b, <<>>)

\* C30: unfoldLines treats CRLF, lone CR and lone LF alike as line breaks;
\* every break immediately followed by a space or tab is removed together
\* with exactly that one whitespace character, whitespace before the break
\* and further whitespace after it being kept as content; the remaining
\* breaks separate the returned lines in order, and empty lines are dropped.
C30_UnfoldLineBreaks ==
  pc = "lines" => ret = LinesFrom(arg, 1, <<>>)

\* "a " CRLF space tab "b" CR CR "c" LF gives the two lines "a " tab "b" and
\* "c": the space before the fold and the tab after its indicator are kept,
\* the empty line between the two CRs is dropped.
C30_Witness ==
  /\ pc = "lines"
  /\ arg = UnfoldSample
  /\ ret = << T("a ") \o <<TAB>> \o T("b"), T("c") >>

=============================================================================
